---- MODULE Spec2Model ----
(***************************************************************************)
(* Model of one_claude's session-log reconstruction and file restoration.  *)
(*                                                                         *)
(*   core/parser.py  SessionParser.parse_record / parse_file,              *)
(*                   _link_orphaned_chains, _fix_checkpoint_timestamps     *)
(*   core/models.py  Message, MessageTree, Session                         *)
(*                                                                         *)
(*   core/scanner.py      ClaudeScanner.get_file_checkpoints, scan_all,    *)
(*                        _generate_title, compute_path_hash               *)
(*   teleport/restore.py  FileRestorer                                     *)
(*   teleport/sandbox.py  TeleportSandbox                                  *)
(*   tui/screens          SessionScreen and HomeScreen _do_teleport        *)
(*                                                                         *)
(* The specifications share the operators:                                 *)
(*   Spec         parse_file reading a log line by line, then linking the  *)
(*                orphaned chains and fixing the checkpoint timestamps;    *)
(*   RepeatSpec   parse_file on longer logs that record a turn repeatedly; *)
(*   RecordSpec   parse_record applied to one decoded record;              *)
(*   ThreadSpec   get_main_thread on the tree parse_file returned;         *)
(*   RestoreSpec  restore_to_sandbox and cleanup on a session's            *)
(*                checkpoints;                                             *)
(*   PointsSpec   get_restorable_points on sessions of many messages;      *)
(*   IndexSpec    get_file_checkpoints on a checkpoint directory;          *)
(*   MappingSpec  build_path_mapping on two sessions whose logs grow;      *)
(*   TitleSpec    _generate_title on a first user message;                 *)
(*   ScanSpec     scan_all on a tree of project directories;               *)
(*   TeleportSpec the teleport handlers of the screens, which call         *)
(*                restore_to_sandbox;                                      *)
(*   SandboxSpec  the calls of two TeleportSandbox objects of one session, *)
(*                interleaved at their awaits.                             *)
(***************************************************************************)
EXTENDS Integers, Sequences, FiniteSets, TLC

VARIABLES
    pc,          \* "reading", "returned", "raised"; "record" in RecordSpec
    lineno,      \* parse_file: number of lines consumed from the file
    messages,    \* parse_file: dict uuid -> Message, in insertion order
    root_uuids,  \* parse_file: list of uuids
    children,    \* parse_file: dict parent uuid -> list of child uuids
    summaries,   \* parse_file: list of the summary Messages
    parsed,      \* history: the Messages parse_record returned, in log order
    reparsed,    \* history: uuids a second parse of the same lines inserts
    data,        \* parse_record: the decoded record it is given
    result,      \* parse_record: what it returned (or raised)
    thread,      \* get_main_thread: the uuids of its result list so far
    history,     \* the session's checkpoint files and its path mapping
    sandbox,     \* restore_to_sandbox: the fields of its TeleportSandbox
    host,        \* the sandbox's temporary directory and server instance
    restore,     \* restore_to_sandbox: its locals and the error it raised
    teleport_session,  \* restore_to_sandbox: the TeleportSession it returned
    points,      \* get_restorable_points: its locals and what it returned
    directory,   \* the session's directory under file-history
    index,       \* get_file_checkpoints: its locals and what it returned
    runs,        \* history: the restores that returned, by target message
    paths,       \* the sessions whose paths are mapped and the digest of a path
    restorer,    \* FileRestorer: its _path_cache and build_path_mapping's locals
    projects,    \* the log files under ~/.claude/projects
    scan,        \* scan_all: its locals and what it returned
    title,       \* _generate_title: its argument and what it returned
    tui,         \* _do_teleport: its position and the sandbox it holds
    sandboxes,   \* the TeleportSandbox objects of two teleports of a session
    machine      \* their host directories, the server, the suspended calls

vars == <<pc, lineno, messages, root_uuids, children, summaries, parsed,
          reparsed, data, result, thread, history, sandbox, host, restore,
          teleport_session, points, directory, index, runs, paths, restorer,
          projects, scan, title, tui, sandboxes, machine>>

\* The variables of teleport/restore.py and teleport/sandbox.py.
teleportVars == <<history, sandbox, host, restore, teleport_session, runs>>

\* The variables of get_restorable_points and of get_file_checkpoints.
listingVars == <<points, directory, index>>

\* The variables of the operations that run on a parsed session.
\* The variables of the path mapping, of the scan, of the titles, of the
\* teleport screens and of the concurrent sandboxes.
sandboxVars == <<sandboxes, machine>>

appVars == <<paths, restorer, projects, scan, title, tui, sandboxVars>>

sessionVars == <<thread, teleportVars, listingVars, appVars>>

----------------------------------------------------------------------------
(* Bounds of the model.                                                    *)

\* Longest log parse_file reads.
MaxLines == 3
\* Longest log of RepeatSpec.
MaxRepeatLines == 4
\* Wall-clock values 1..MaxTime of timestamps and of datetime.now().
MaxTime == 2

Times == 1..MaxTime

----------------------------------------------------------------------------
(* Values.                                                                 *)

\* Python's None, where a str | None is held.
None == "None"

\* MessageType (models.py): the values the enum accepts.
MessageTypes == {"user", "assistant", "summary", "file-history-snapshot"}

\* A datetime: its wall-clock reading and whether it carries a tzinfo.
Timestamp(wall, aware) == [wall |-> wall, aware |-> aware]

\* ToolUse (models.py): the tool's name and the file path of its input
\* ("" when the input has none).
ToolUse(name, file_path) == [name |-> name, file_path |-> file_path]

\* Message (models.py), the fields the tree algorithms read.  is_sidechain
\* and tool_uses start at the dataclass defaults.
Message(uuid, parent_uuid, type, timestamp) ==
    [uuid |-> uuid, parent_uuid |-> parent_uuid, type |-> type,
     timestamp |-> timestamp, is_sidechain |-> FALSE, tool_uses |-> << >>]

\* A decoded JSON object with the keys parse_record reads.  A key that is
\* absent from the object is "" (None for parentUuid); `timestamp` is the
\* string's parse: ok = FALSE when datetime.fromisoformat rejects it;
\* `message` is "object" when the value of the key is a JSON object (or
\* the key is absent) and "string" otherwise; `summary` is the summary text;
\* `isSidechain` is FALSE when the key is absent; `content` lists the
\* tool_use blocks of message.content, each as the ToolUse made from it.
Record(type, uuid, parentUuid, leafUuid, messageId, timestamp, summary, message) ==
    [kind |-> "object", type |-> type, uuid |-> uuid, parentUuid |-> parentUuid,
     leafUuid |-> leafUuid, messageId |-> messageId, timestamp |-> timestamp,
     summary |-> summary, message |-> message, isSidechain |-> FALSE,
     content |-> << >>]

IsoString(wall, aware) == [ok |-> TRUE, wall |-> wall, aware |-> aware]
BadString == [ok |-> FALSE, wall |-> 0, aware |-> FALSE]

\* A line that is no JSON object: empty after strip(), not decodable, or a
\* decodable value of another JSON type (a list, a number, ...).
OtherLine(kind) ==
    [kind |-> kind, type |-> "", uuid |-> "", parentUuid |-> None,
     leafUuid |-> "", messageId |-> "", timestamp |-> BadString,
     summary |-> "", message |-> "object", isSidechain |-> FALSE,
     content |-> << >>]

\* Python truthiness of a str | None.
Truthy(s) == s # None /\ s # ""

----------------------------------------------------------------------------
(* parse_record.                                                           *)

\* The outcomes of a call: a Message, None, or an uncaught exception.
NoMessage == Message("", None, "", Timestamp(0, FALSE))
Returned(msg) == [tag |-> "message", msg |-> msg]
ReturnedNone == [tag |-> "none", msg |-> NoMessage]
Raised == [tag |-> "raise", msg |-> NoMessage]

\* parser.py 138-151: the native uuid, or the synthetic one of a summary
\* (from leafUuid) or of a file-history-snapshot (from messageId).
RecordUuid(d) ==
    IF d.uuid # "" THEN d.uuid
    ELSE IF d.type = "summary" /\ d.leafUuid # "" THEN "summary-" \o d.leafUuid
    ELSE IF d.type = "file-history-snapshot" /\ d.messageId # ""
         THEN "checkpoint-" \o d.messageId
    ELSE ""

\* parser.py 156-161: fromisoformat keeps the string's offset; on failure
\* the naive datetime.now(), whose reading is `now`.
RecordTimestamp(d, now) ==
    IF d.timestamp.ok THEN Timestamp(d.timestamp.wall, d.timestamp.aware)
    ELSE Timestamp(now, FALSE)

\* A parse_record that never overwrites the parent: the message keeps the
\* record's parentUuid.
RecordParentDeclared(d) == d.parentUuid

\* parser.py 276-279 and 285-288: a summary's parent is its leafUuid, a
\* snapshot's its messageId, when the record has one.
RecordParent(d) ==
    IF d.type = "summary" /\ d.leafUuid # "" THEN d.leafUuid
    ELSE IF d.type = "file-history-snapshot" /\ d.messageId # "" THEN d.messageId
    ELSE d.parentUuid

\* parser.py 197-198, 239-240, 270-272: message_data.get(...) on a value
\* that is no dict raises AttributeError.
ContentRaises(d) ==
    \/ d.type \in {"user", "assistant"} /\ d.message # "object"
    \/ d.type = "summary" /\ d.summary = "" /\ d.message # "object"

\* parser.py 251-257: only an assistant record's tool_use blocks become
\* tool_uses.
RecordToolUses(d) == IF d.type = "assistant" THEN d.content ELSE << >>

\* parser.py 153-186, given the uuid computed by lines 138-151.
BuildMessage(d, now, uuid) ==
    IF uuid = "" THEN ReturnedNone
    ELSE IF ContentRaises(d) THEN Raised
    ELSE Returned([Message(uuid, RecordParent(d), d.type, RecordTimestamp(d, now))
                   EXCEPT !.is_sidechain = d.isSidechain,
                          !.tool_uses = RecordToolUses(d)])

\* A parse_record whose synthetic uuid is made from the clock reading of
\* the call instead of the reference alone.
ParseRecordClockUuid(d, now) ==
    IF d.kind # "object" THEN Raised
    ELSE IF d.type = "" THEN ReturnedNone
    ELSE IF d.type \notin MessageTypes THEN ReturnedNone
    ELSE BuildMessage(d, now, IF d.uuid = "" /\ RecordUuid(d) # ""
                              THEN RecordUuid(d) \o "-" \o ToString(now)
                              ELSE RecordUuid(d))

\* parser.py 127-186.  data.get on a decoded value that is no dict raises.
ParseRecord(d, now) ==
    IF d.kind # "object" THEN Raised
    ELSE IF d.type = "" THEN ReturnedNone
    ELSE IF d.type \notin MessageTypes THEN ReturnedNone
    ELSE BuildMessage(d, now, RecordUuid(d))

\* datetime.now() is read only when the timestamp string does not parse.
ClockReadings(d) == IF d.kind = "object" /\ ~d.timestamp.ok THEN Times ELSE {0}

----------------------------------------------------------------------------
(* The dicts of parse_file.                                                *)

Keys(msgs) == {msgs[i].uuid : i \in 1..Len(msgs)}

IndexOf(msgs, uuid) == CHOOSE i \in 1..Len(msgs) : msgs[i].uuid = uuid

\* messages[uuid], for a key of the dict.
Get(msgs, uuid) == msgs[IndexOf(msgs, uuid)]

\* messages[msg.uuid] = msg: a new key goes last, an existing key keeps
\* its place in the iteration order.
Put(msgs, msg) ==
    IF msg.uuid \in Keys(msgs)
    THEN [msgs EXCEPT ![IndexOf(msgs, msg.uuid)] = msg]
    ELSE Append(msgs, msg)

ChildrenOf(ch, p) == IF p \in DOMAIN ch THEN ch[p] ELSE << >>

\* if p not in children: children[p] = []; children[p].append(c)
AppendChild(ch, p, c) ==
    [k \in (DOMAIN ch) \cup {p} |->
        IF k = p THEN Append(ChildrenOf(ch, p), c) ELSE ch[k]]

InSeq(s, x) == \E i \in 1..Len(s) : s[i] = x

\* list.remove(x): drops the first occurrence.
RemoveFirst(s, x) ==
    LET i == CHOOSE j \in 1..Len(s) : s[j] = x /\ \A k \in 1..(j - 1) : s[k] # x
    IN  SubSeq(s, 1, i - 1) \o SubSeq(s, i + 1, Len(s))

----------------------------------------------------------------------------
(* _link_orphaned_chains.                                                  *)

\* get_naive_ts (parser.py 99-101, 107, 112): replace(tzinfo=None) drops
\* the offset and keeps the wall-clock reading.
GetNaiveTs(ts) == IF ts.aware THEN Timestamp(ts.wall, FALSE) ELSE ts

\* a <= b on two naive datetimes.
NaiveLeq(a, b) == a.wall <= b.wall

\* One step of the stable sort: m goes after every element whose key is
\* not greater than its own.
InsertByTs(sorted, m) ==
    LET before == {i \in 1..Len(sorted) :
                      NaiveLeq(GetNaiveTs(sorted[i].timestamp), GetNaiveTs(m.timestamp))}
        n == Cardinality(before)
    IN  SubSeq(sorted, 1, n) \o <<m>> \o SubSeq(sorted, n + 1, Len(sorted))

\* summaries.sort(key=get_naive_ts) (parser.py 102): stable, ascending.
RECURSIVE SortByTs(_)
SortByTs(s) ==
    IF s = << >> THEN << >>
    ELSE InsertByTs(SortByTs(SubSeq(s, 1, Len(s) - 1)), s[Len(s)])

\* parser.py 113: is this summary at or before the orphan?
SummaryEligible(summary_ts, orphan_ts) == NaiveLeq(summary_ts, orphan_ts)

\* A loop that stops at the first summary that passes the test.
BestSummaryFirst(sorted, orphan) ==
    LET orphan_ts == GetNaiveTs(orphan.timestamp)
        ok == {i \in 1..Len(sorted) :
                  SummaryEligible(GetNaiveTs(sorted[i].timestamp), orphan_ts)}
    IN  IF ok = {} THEN 0 ELSE CHOOSE i \in ok : \A j \in ok : i <= j

\* parser.py 110-114: the loop keeps the last summary of the sorted list
\* that passes the test; 0 when none does (best_summary stays None).
BestSummary(sorted, orphan) ==
    LET orphan_ts == GetNaiveTs(orphan.timestamp)
        ok == {i \in 1..Len(sorted) :
                  SummaryEligible(GetNaiveTs(sorted[i].timestamp), orphan_ts)}
    IN  IF ok = {} THEN 0 ELSE CHOOSE i \in ok : \A j \in ok : j <= i

\* parser.py 90-93: the orphans, in the dict's iteration order.
IsOrphan(msgs, msg) == Truthy(msg.parent_uuid) /\ msg.parent_uuid \notin Keys(msgs)

OrphanUuids(msgs) ==
    LET orphans == SelectSeq(msgs, LAMBDA m : IsOrphan(msgs, m))
    IN  [i \in 1..Len(orphans) |-> orphans[i].uuid]

\* parser.py 116-125: the effect of one iteration of the loop over orphans
\* on the tree t = [messages, root_uuids, children].
LinkOrphan(t, orphan_uuid, sorted) ==
    LET orphan == Get(t.messages, orphan_uuid)
        best == BestSummary(sorted, orphan)
    IN  IF best = 0 THEN t
        ELSE [messages |-> Put(t.messages,
                               [orphan EXCEPT !.parent_uuid = sorted[best].uuid]),
              children |-> AppendChild(t.children, sorted[best].uuid, orphan_uuid),
              root_uuids |-> IF InSeq(t.root_uuids, orphan_uuid)
                             THEN RemoveFirst(t.root_uuids, orphan_uuid)
                             ELSE t.root_uuids]

\* parser.py 105-125: the loop, over the orphans found before it started.
RECURSIVE LinkOrphans(_, _, _)
LinkOrphans(t, orphan_uuids, sorted) ==
    IF orphan_uuids = << >> THEN t
    ELSE LinkOrphans(LinkOrphan(t, Head(orphan_uuids), sorted),
                     Tail(orphan_uuids), sorted)

\* parser.py 70-125.  The list of summaries is sorted in place only when
\* there is an orphan to link.
LinkOrphanedChains(msgs, roots, ch, sums) ==
    LET t == [messages |-> msgs, root_uuids |-> roots, children |-> ch]
        orphan_uuids == OrphanUuids(msgs)
        sorted == SortByTs(sums)
    IN  IF sums = << >> \/ orphan_uuids = << >>
        THEN [tree |-> t, summaries |-> sums]
        ELSE [tree |-> LinkOrphans(t, orphan_uuids, sorted), summaries |-> sorted]

----------------------------------------------------------------------------
(* _fix_checkpoint_timestamps.                                             *)

\* parser.py 64-68: one iteration, on the i-th message of the dict; the
\* parent's timestamp is the one it has at that moment.
FixCheckpoint(msgs, i) ==
    LET msg == msgs[i]
    IN  IF /\ msg.type = "file-history-snapshot"
           /\ Truthy(msg.parent_uuid)
           /\ msg.parent_uuid \in Keys(msgs)
        THEN [msgs EXCEPT ![i].timestamp = Get(msgs, msg.parent_uuid).timestamp]
        ELSE msgs

\* parser.py 63: the loop over messages.values(), from the i-th on.
RECURSIVE FixFrom(_, _)
FixFrom(msgs, i) ==
    IF i > Len(msgs) THEN msgs ELSE FixFrom(FixCheckpoint(msgs, i), i + 1)

\* parser.py 61-68.
FixCheckpointTimestamps(msgs) == FixFrom(msgs, 1)

----------------------------------------------------------------------------
(* The logs parse_file is given: lines drawn from Lines.                   *)

\* user turns "a": a root, and a turn whose parent "c" is the uuid of no
\* record (compacted away).
UserLines ==
    {Record("user", "a", parent, "", "", IsoString(t, TRUE), "", "object") :
        parent \in {None, "c"}, t \in Times}

\* an assistant turn whose parent was compacted away as well.
AssistantLines ==
    {Record("assistant", "b", "c", "", "", IsoString(t, TRUE), "", "object") :
        t \in Times}

\* summaries without a native uuid: one covers "c", one covers "a" and has
\* a timestamp that does not parse.
SummaryLines ==
    {Record("summary", "", None, "c", "", IsoString(t, TRUE), "text", "object") :
        t \in Times}
    \cup {Record("summary", "", None, "a", "", BadString, "text", "object")}

\* snapshots without a native uuid, triggered by "a" or by a snapshot.
SnapshotLines ==
    {Record("file-history-snapshot", "", None, "", mid, IsoString(t, TRUE), "", "object") :
        mid \in {"a", "checkpoint-a"}, t \in Times}

\* lines that yield no message.
MalformedLines ==
    {OtherLine("empty"), OtherLine("undecodable"), OtherLine("nonobject"),
     Record("", "a", None, "", "", IsoString(1, TRUE), "", "object"),
     Record("system", "a", None, "", "", IsoString(1, TRUE), "", "object"),
     Record("user", "", None, "", "", IsoString(1, TRUE), "", "object"),
     Record("summary", "", None, "", "", IsoString(1, TRUE), "text", "object"),
     Record("file-history-snapshot", "", None, "", "", IsoString(1, TRUE), "", "object"),
     Record("user", "a", None, "", "", IsoString(1, TRUE), "", "string")}

Lines == UserLines \cup AssistantLines \cup SummaryLines \cup SnapshotLines
         \cup MalformedLines

\* The lines of RepeatSpec: the turn "a" as a root and with a parent that
\* was compacted away, the summary that covers "c", and lines without a
\* message.
RepeatLines ==
    UserLines
    \cup {Record("summary", "", None, "c", "", IsoString(t, TRUE), "text", "object") :
            t \in Times}
    \cup {OtherLine("empty"), OtherLine("nonobject"),
          Record("", "a", None, "", "", IsoString(1, TRUE), "", "object")}

\* The records parse_record is given in RecordSpec: every combination of
\* the keys it reads, and a decoded value that is no object.
Records ==
    {Record(type, uuid, parentUuid, leafUuid, messageId, timestamp, summary, message) :
        type \in MessageTypes \cup {"", "system"},
        uuid \in {"", "a"},
        parentUuid \in {None, "p"},
        leafUuid \in {"", "l"},
        messageId \in {"", "m"},
        timestamp \in {BadString} \cup {IsoString(t, aw) : t \in Times, aw \in BOOLEAN},
        summary \in {"", "text"},
        message \in {"object", "string"}}
    \cup {OtherLine("nonobject")}

Pending == [tag |-> "pending", msg |-> NoMessage]

----------------------------------------------------------------------------
(* parse_file (parser.py 23-59).                                           *)

TreeInit ==
    /\ lineno = 0
    /\ messages = << >>
    /\ root_uuids = << >>
    /\ children = [k \in {} |-> << >>]
    /\ summaries = << >>
    /\ parsed = << >>
    /\ reparsed = {}

treeVars == <<lineno, messages, root_uuids, children, summaries, parsed, reparsed>>

\* The empty dict.
EmptyDict == [k \in {} |-> << >>]

\* TeleportSandbox.__init__ (sandbox.py 138-155): _host_dir is None (the
\* empty path), nothing is started.
NewSandbox(working_dir) ==
    [_requested_workdir |-> working_dir, _host_dir |-> << >>,
     working_dir |-> << >>, files |-> EmptyDict, _started |-> FALSE,
     _using_sandbox |-> FALSE]

\* No temporary directory, no sandbox instance on the server.
NoHost == [exists |-> FALSE, files |-> EmptyDict, running |-> FALSE]

\* The locals of restore_to_sandbox before the call.
NoRestore ==
    [message_uuid |-> None, todo |-> << >>, files_restored |-> EmptyDict,
     error |-> "none"]

NoSession == [restore_point |-> "", files_restored |-> EmptyDict]

\* A session without file history.
NoHistory == [files |-> {}, unreadable |-> {}, path_mapping |-> EmptyDict]

\* No restore has been called yet.
TeleportIdle ==
    /\ sandbox = NewSandbox(<< >>)
    /\ host = NoHost
    /\ restore = NoRestore
    /\ teleport_session = NoSession
    /\ runs = {}

\* The locals of get_restorable_points before the call.
NoPoints ==
    [checkpoints |-> 0, walk |-> << >>, seen_messages |-> {}, points |-> << >>]

\* No directory for the session.
NoDirectory == [exists |-> FALSE, entries |-> {}]

\* The locals of get_file_checkpoints before the call.
NoIndex == [entries |-> << >>, checkpoints |-> << >>]

\* Nothing has been listed yet.
ListingIdle ==
    /\ points = NoPoints
    /\ directory = NoDirectory
    /\ index = NoIndex

NoPaths == << >>
NoRestorer == << >>
NoTeleport == [screen |-> None, stop_called |-> FALSE, error |-> "none"]

\* No TeleportSandbox has been made.
SandboxIdle ==
    /\ sandboxes = << >>
    /\ machine = << >>

\* No path is mapped, nothing is scanned, no title made, no teleport begun.
AppIdle ==
    /\ paths = NoPaths
    /\ restorer = NoRestorer
    /\ projects = << >>
    /\ scan = << >>
    /\ title = << >>
    /\ tui = NoTeleport
    /\ SandboxIdle

\* No operation on the session has been called yet.
SessionInit ==
    /\ thread = << >>
    /\ history = NoHistory
    /\ TeleportIdle
    /\ ListingIdle
    /\ AppIdle

Init ==
    /\ pc = "reading"
    /\ TreeInit
    /\ SessionInit
    /\ data = OtherLine("empty")
    /\ result = Pending

\* parser.py 32-34 and 50-51: an empty line and a line orjson cannot decode
\* are passed over.
SkipLine(line) ==
    /\ pc = "reading"
    /\ line.kind \in {"empty", "undecodable"}
    /\ lineno' = lineno + 1
    /\ UNCHANGED <<pc, messages, root_uuids, children, summaries, parsed,
                   reparsed, data, result, sessionVars>>

\* parser.py 37-38: parse_record returned None.
DropRecord(line, now) ==
    /\ pc = "reading"
    /\ line.kind \notin {"empty", "undecodable"}
    /\ ParseRecord(line, now).tag = "none"
    /\ lineno' = lineno + 1
    /\ UNCHANGED <<pc, messages, root_uuids, children, summaries, parsed,
                   reparsed, data, result, sessionVars>>

\* parser.py 36-37: parse_record raised; only orjson.JSONDecodeError is
\* caught, so the exception leaves parse_file.
RaiseOnRecord(line, now) ==
    /\ pc = "reading"
    /\ line.kind \notin {"empty", "undecodable"}
    /\ ParseRecord(line, now).tag = "raise"
    /\ pc' = "raised"
    /\ lineno' = lineno + 1
    /\ UNCHANGED <<messages, root_uuids, children, summaries, parsed,
                   reparsed, data, result, sessionVars>>

\* parser.py 38-49: the message is inserted.  A second parse of the same
\* line reads the clock on its own (now2).
InsertRecord(line, now, now2) ==
    /\ pc = "reading"
    /\ line.kind \notin {"empty", "undecodable"}
    /\ ParseRecord(line, now).tag = "message"
    /\ LET msg == ParseRecord(line, now).msg
           again == ParseRecord(line, now2)
       IN  /\ messages' = Put(messages, msg)
           /\ root_uuids' = IF msg.parent_uuid = None
                            THEN Append(root_uuids, msg.uuid)
                            ELSE root_uuids
           /\ children' = IF msg.parent_uuid = None
                          THEN children
                          ELSE AppendChild(children, msg.parent_uuid, msg.uuid)
           /\ summaries' = IF msg.type = "summary"
                           THEN Append(summaries, msg)
                           ELSE summaries
           /\ parsed' = Append(parsed, msg)
           /\ reparsed' = IF again.tag = "message"
                          THEN reparsed \cup {again.msg.uuid}
                          ELSE reparsed
    /\ lineno' = lineno + 1
    /\ UNCHANGED <<pc, data, result, sessionVars>>

\* parser.py 53-59: at the end of the file the orphaned chains are linked,
\* the checkpoint timestamps fixed and the tree returned.
EndOfFile ==
    /\ pc = "reading"
    /\ \E linked \in {LinkOrphanedChains(messages, root_uuids, children, summaries)} :
           /\ messages' = FixCheckpointTimestamps(linked.tree.messages)
           /\ root_uuids' = linked.tree.root_uuids
           /\ children' = linked.tree.children
           /\ summaries' = linked.summaries
    /\ pc' = "returned"
    /\ UNCHANGED <<lineno, parsed, reparsed, data, result, sessionVars>>

\* One more line of a file of at most max lines drawn from lines, or its end.
ParseFileStep(lines, max) ==
    \/ \E line \in lines : lineno < max /\ SkipLine(line)
    \/ \E line \in lines : \E now \in ClockReadings(line) :
          lineno < max /\ DropRecord(line, now)
    \/ \E line \in lines : \E now \in ClockReadings(line) :
          lineno < max /\ RaiseOnRecord(line, now)
    \/ \E line \in lines : \E now, now2 \in ClockReadings(line) :
          lineno < max /\ InsertRecord(line, now, now2)
    \/ EndOfFile

Next == ParseFileStep(Lines, MaxLines)

Spec == Init /\ [][Next]_vars

\* parse_file on the longer logs of RepeatLines, where a turn is recorded
\* more than once.
RepeatNext == ParseFileStep(RepeatLines, MaxRepeatLines)

RepeatSpec == Init /\ [][RepeatNext]_vars

----------------------------------------------------------------------------
(* parse_record on one record (parser.py 127-186).                         *)

RecordInit ==
    /\ pc = "record"
    /\ TreeInit
    /\ SessionInit
    /\ data \in Records
    /\ result = Pending

ParseRecordCall(now) ==
    /\ pc = "record"
    /\ result = Pending
    /\ result' = ParseRecord(data, now)
    /\ UNCHANGED <<pc, data, treeVars, sessionVars>>

RecordNext == \E now \in ClockReadings(data) : ParseRecordCall(now)

RecordSpec == RecordInit /\ [][RecordNext]_vars

----------------------------------------------------------------------------
(* What the log held, read off the history of parse_record's results.      *)

\* The message of this uuid as the loop over the lines left it in the dict:
\* the last one parse_record returned for it.
LastParsed(uuid) ==
    parsed[CHOOSE i \in 1..Len(parsed) :
              /\ parsed[i].uuid = uuid
              /\ \A j \in (i + 1)..Len(parsed) : parsed[j].uuid # uuid]

\* The summaries of the log, in the order of their records.
SummaryRecords == SelectSeq(parsed, LAMBDA m : m.type = "summary")

\* An orphan: a message whose declared parent is not a key of the tree.
WasOrphan(uuid) ==
    /\ LastParsed(uuid).parent_uuid # None
    /\ LastParsed(uuid).parent_uuid \notin Keys(messages)

\* The summaries whose timestamp does not exceed the orphan's.
EligibleFor(uuid) ==
    {i \in 1..Len(SummaryRecords) :
        SummaryRecords[i].timestamp.wall <= LastParsed(uuid).timestamp.wall}

\* Among them the one with the greatest timestamp and, of several with
\* that timestamp, the one recorded last.
AnchorOf(uuid) ==
    SummaryRecords[CHOOSE i \in EligibleFor(uuid) : \A j \in EligibleFor(uuid) :
        \/ SummaryRecords[j].timestamp.wall < SummaryRecords[i].timestamp.wall
        \/ /\ SummaryRecords[j].timestamp.wall = SummaryRecords[i].timestamp.wall
           /\ j <= i]

NoDuplicates(s) == \A i, j \in 1..Len(s) : s[i] = s[j] => i = j

----------------------------------------------------------------------------
(* Properties of the tree parse_file returns.                              *)

\* C1: in the returned tree every message has no parent or a parent that
\* is a key of the tree.
C1_NoDanglingParent ==
    pc = "returned" =>
        \A i \in 1..Len(messages) :
            \/ messages[i].parent_uuid = None
            \/ messages[i].parent_uuid \in Keys(messages)

\* C2: every orphan is linked to the summary with the greatest timestamp
\* that does not exceed its own, the last recorded of several with that
\* timestamp, whatever the order of the orphans; an orphan without such a
\* summary is linked to none.
C2_AnchorIsLatestEligibleSummary ==
    pc = "returned" =>
        \A uuid \in Keys(messages) :
            WasOrphan(uuid) =>
                Get(messages, uuid).parent_uuid =
                    IF EligibleFor(uuid) # {} THEN AnchorOf(uuid).uuid
                    ELSE LastParsed(uuid).parent_uuid

\* A returned tree with two orphans that were linked, one of them to the
\* later recorded of two summaries that share a timestamp.
C2_Witness ==
    /\ pc = "returned"
    /\ \E u, v \in Keys(messages) :
          /\ u # v
          /\ WasOrphan(u) /\ WasOrphan(v)
          /\ EligibleFor(u) # {} /\ EligibleFor(v) # {}
          /\ \E i, j \in EligibleFor(u) :
                /\ i < j
                /\ SummaryRecords[i].uuid # SummaryRecords[j].uuid
                /\ SummaryRecords[i].timestamp.wall = SummaryRecords[j].timestamp.wall
                /\ AnchorOf(u) = SummaryRecords[j]
                /\ Get(messages, u).parent_uuid = SummaryRecords[j].uuid

\* C3: an orphan with a summary at or before it has that summary as its
\* parent, is listed among the summary's children and is no root.
C3_OrphanReattachedUnderSummary ==
    pc = "returned" =>
        \A uuid \in Keys(messages) :
            (WasOrphan(uuid) /\ EligibleFor(uuid) # {}) =>
                /\ Get(messages, uuid).parent_uuid = AnchorOf(uuid).uuid
                /\ InSeq(ChildrenOf(children, AnchorOf(uuid).uuid), uuid)
                /\ ~InSeq(root_uuids, uuid)

\* C4: an orphan without a summary at or before it is a root of the
\* returned tree.
C4_OrphanWithoutSummaryIsRoot ==
    pc = "returned" =>
        \A uuid \in Keys(messages) :
            (WasOrphan(uuid) /\ EligibleFor(uuid) = {}) => InSeq(root_uuids, uuid)

\* C5: root_uuids lists exactly the messages without a parent, each once.
C5_RootsAreTheParentlessMessages ==
    pc = "returned" =>
        /\ \A i \in 1..Len(root_uuids) :
              /\ root_uuids[i] \in Keys(messages)
              /\ Get(messages, root_uuids[i]).parent_uuid = None
        /\ \A i \in 1..Len(messages) :
              messages[i].parent_uuid = None => InSeq(root_uuids, messages[i].uuid)
        /\ NoDuplicates(root_uuids)

\* C7: a second parse of the same log, reading the clock on its own, gets
\* the same set of identifiers, and two summaries or two snapshots with
\* the same covered or trigger reference get the same identifier.
C7_ReparseYieldsSameIdentifiers ==
    pc = "returned" =>
        /\ Keys(messages) = reparsed
        /\ \A i, j \in 1..Len(parsed) :
              (/\ parsed[i].type \in {"summary", "file-history-snapshot"}
               /\ parsed[i].type = parsed[j].type
               /\ parsed[i].parent_uuid = parsed[j].parent_uuid)
              => parsed[i].uuid = parsed[j].uuid

\* A returned tree with two summaries of the same covered reference whose
\* timestamps came from two readings of the clock, and a snapshot.
C7_Witness ==
    /\ pc = "returned"
    /\ \E i, j \in 1..Len(parsed) :
          /\ parsed[i].type = "summary" /\ parsed[j].type = "summary"
          /\ ~parsed[i].timestamp.aware /\ ~parsed[j].timestamp.aware
          /\ parsed[i].timestamp # parsed[j].timestamp
          /\ parsed[i].uuid = parsed[j].uuid
    /\ \E i \in 1..Len(messages) : messages[i].type = "file-history-snapshot"

\* C8: parse_file never fails on a record, and every message parse_record
\* returned is in the tree.
C8_BadRecordNeverFatal ==
    /\ pc # "raised"
    /\ \A i \in 1..Len(parsed) : parsed[i].uuid \in Keys(messages)

\* C10: in the returned tree a snapshot whose parent is a key of the tree
\* has the parent's timestamp, and any other snapshot the timestamp of its
\* record.
C10_SnapshotHasParentTimestamp ==
    pc = "returned" =>
        \A i \in 1..Len(messages) :
            messages[i].type = "file-history-snapshot" =>
                IF messages[i].parent_uuid \in Keys(messages)
                THEN messages[i].timestamp =
                        Get(messages, messages[i].parent_uuid).timestamp
                ELSE messages[i].timestamp = LastParsed(messages[i].uuid).timestamp

----------------------------------------------------------------------------
(* Properties of parse_record.                                             *)

\* C6 as stated: the synthetic identifiers are summary:<leafUuid> and
\* snapshot:<messageId>, and the parent is the reference.
C6_SpecPrefixes ==
    (result.tag = "message" /\ data.uuid = "") =>
        /\ data.type = "summary" =>
              /\ result.msg.uuid = "summary:" \o data.leafUuid
              /\ result.msg.parent_uuid = data.leafUuid
        /\ data.type = "file-history-snapshot" =>
              /\ result.msg.uuid = "snapshot:" \o data.messageId
              /\ result.msg.parent_uuid = data.messageId

\* C6: a summary without a native uuid gets the uuid summary-<leafUuid>
\* and the parent leafUuid; a snapshot without a native uuid gets the uuid
\* checkpoint-<messageId> and the parent messageId.
C6_SyntheticUuidAndParent ==
    (result.tag = "message" /\ data.uuid = "") =>
        /\ data.type = "summary" =>
              /\ result.msg.uuid = "summary-" \o data.leafUuid
              /\ result.msg.parent_uuid = data.leafUuid
        /\ data.type = "file-history-snapshot" =>
              /\ result.msg.uuid = "checkpoint-" \o data.messageId
              /\ result.msg.parent_uuid = data.messageId

\* parse_record returned a summary made from a record that has a
\* parentUuid of its own and no native uuid.
C6_Witness ==
    /\ result.tag = "message"
    /\ data.uuid = ""
    /\ data.type = "summary"
    /\ data.parentUuid # None
    /\ result.msg.uuid = "summary-l"

\* The records C9 says yield no message.
MustDrop(d) ==
    \/ d.type \notin MessageTypes
    \/ d.type \in {"user", "assistant"} /\ d.uuid = ""
    \/ d.type = "summary" /\ d.uuid = "" /\ d.leafUuid = ""
    \/ d.type = "file-history-snapshot" /\ d.uuid = "" /\ d.messageId = ""

\* C9: parse_record returns None for a record without a known type, for a
\* user or assistant record without uuid and for a summary or snapshot
\* record with neither uuid nor reference, and a message with a non-empty
\* uuid for any other record.
C9_DropsExactlyUnidentifiedRecords ==
    (result # Pending /\ data.kind = "object") =>
        IF MustDrop(data) THEN result.tag = "none"
        ELSE result.tag = "message" /\ result.msg.uuid # ""

----------------------------------------------------------------------------
(* The child index and the parent links of the returned tree.              *)

\* The parents the tree knows: the keys of the child index and the parents
\* the messages name.
KnownParents ==
    ((DOMAIN children) \cup {messages[i].parent_uuid : i \in 1..Len(messages)})
        \ {None}

\* C33: in the returned tree c is listed under children[p] exactly when
\* messages[c].parent_uuid is p, every listed identifier is a key of the
\* tree, and no list holds an identifier twice.
C33_ChildIndexMatchesParentLinks ==
    pc = "returned" =>
        \A p \in KnownParents :
            LET listed == ChildrenOf(children, p)
            IN  /\ NoDuplicates(listed)
                /\ \A i \in 1..Len(listed) : listed[i] \in Keys(messages)
                /\ \A c \in Keys(messages) :
                       InSeq(listed, c) <=> Get(messages, c).parent_uuid = p

\* models.py 108-118: the loop of get_linear_path from current on.  Its
\* only state is current, so it runs forever exactly when it comes back
\* to a message it has appended; ends tells whether it returns and path is
\* the reversed list it returns.
RECURSIVE LinearPathFrom(_, _)
LinearPathFrom(current, seen) ==
    IF current \notin Keys(messages) THEN [ends |-> TRUE, path |-> << >>]
    ELSE IF current \in seen THEN [ends |-> FALSE, path |-> << >>]
    ELSE LET msg == Get(messages, current)
         IN  IF Truthy(msg.parent_uuid)
             THEN LET above == LinearPathFrom(msg.parent_uuid, seen \cup {current})
                  IN  [ends |-> above.ends, path |-> Append(above.path, current)]
             ELSE [ends |-> TRUE, path |-> <<current>>]

get_linear_path(leaf_uuid) == LinearPathFrom(leaf_uuid, {})

\* C34: in the returned tree get_linear_path returns for every message,
\* and what it returns ends at that message and has each message the
\* parent of the next.
C34_LinearPathTerminates ==
    pc = "returned" =>
        \A leaf \in Keys(messages) :
            LET walk == get_linear_path(leaf)
            IN  /\ walk.ends
                /\ walk.path # << >>
                /\ walk.path[Len(walk.path)] = leaf
                /\ \A i \in 1..(Len(walk.path) - 1) :
                       Get(messages, walk.path[i + 1]).parent_uuid = walk.path[i]

----------------------------------------------------------------------------
(* MessageTree.get_main_thread (models.py 103-142) on a parsed log.        *)

\* Longest log of ThreadSpec.
MaxThreadLines == 3

\* Turns a, b, c in the main conversation or in a side chain, under no
\* parent, under each other or under a turn z the log does not hold, a
\* summary of the turns up to a, and an empty line, a record of another
\* type and a turn whose message is no object.
ThreadLines ==
    {[Record("user", uuid, parentUuid, "", "", IsoString(1, TRUE), "", "object")
         EXCEPT !.isSidechain = side] :
        uuid \in {"a", "b", "c"}, parentUuid \in {None, "a", "b", "z"},
        side \in BOOLEAN}
    \cup {Record("summary", "", None, "a", "", IsoString(1, TRUE), "text", "object"),
          OtherLine("empty"),
          Record("system", "a", None, "", "", IsoString(1, TRUE), "", "object"),
          Record("user", "a", None, "", "", IsoString(1, TRUE), "", "string")}

\* models.py 103-106: the children recorded under uuid that are messages.
GetChildren(msgs, ch, uuid) ==
    SelectSeq(ChildrenOf(ch, uuid), LAMBDA u : u \in Keys(msgs))

\* models.py 134-142: the child _collect_main_thread recurses into, None
\* when the message has no children.
MainThreadChild(msgs, ch, uuid) ==
    LET kids == GetChildren(msgs, ch, uuid)
        main == SelectSeq(kids, LAMBDA u : ~Get(msgs, u).is_sidechain)
    IN  IF main # << >> THEN main[1]
        ELSE IF kids # << >> THEN kids[1]
        ELSE None

\* models.py 124-126: the roots get_main_thread may start from.
MainRoots(msgs, roots) ==
    SelectSeq(roots, LAMBDA u : u \in Keys(msgs) /\ ~Get(msgs, u).is_sidechain)

\* models.py 120-129 with the first line of _collect_main_thread: the
\* thread starts at the first root that is no side chain.
GetMainThread ==
    /\ pc = "returned"
    /\ IF MainRoots(messages, root_uuids) = << >>
       THEN thread' = << >> /\ pc' = "thread"
       ELSE thread' = <<MainRoots(messages, root_uuids)[1]>> /\ pc' = "collecting"
    /\ UNCHANGED <<treeVars, data, result, teleportVars, listingVars, appVars>>

\* models.py 131-142: one level of the recursion appends the child.
CollectMainThread ==
    /\ pc = "collecting"
    /\ MainThreadChild(messages, children, thread[Len(thread)]) # None
    /\ ~InSeq(thread, MainThreadChild(messages, children, thread[Len(thread)]))
    /\ thread' = Append(thread, MainThreadChild(messages, children, thread[Len(thread)]))
    /\ UNCHANGED <<pc, treeVars, data, result, teleportVars, listingVars, appVars>>

\* models.py 141-142 falls through at a message without children and the
\* calls return.
MainThreadReturns ==
    /\ pc = "collecting"
    /\ MainThreadChild(messages, children, thread[Len(thread)]) = None
    /\ pc' = "thread"
    /\ UNCHANGED <<thread, treeVars, data, result, teleportVars, listingVars, appVars>>

\* The child is a message the thread already holds: the recursion repeats
\* the same calls until the interpreter raises RecursionError.
MainThreadRecursionError ==
    /\ pc = "collecting"
    /\ MainThreadChild(messages, children, thread[Len(thread)]) # None
    /\ InSeq(thread, MainThreadChild(messages, children, thread[Len(thread)]))
    /\ pc' = "thread_raised"
    /\ UNCHANGED <<thread, treeVars, data, result, teleportVars, listingVars, appVars>>

ThreadNext ==
    \/ ParseFileStep(ThreadLines, MaxThreadLines)
    \/ GetMainThread
    \/ CollectMainThread
    \/ MainThreadReturns
    \/ MainThreadRecursionError

ThreadSpec == Init /\ [][ThreadNext]_vars

\* The messages whose parent is uuid, in the order of the dict.
ChildMessages(uuid) ==
    SelectSeq(messages, LAMBDA m : m.parent_uuid = uuid)

\* C11: the main thread always ends; in it the successor of a message that
\* has children is its first child outside the side chains, or its first
\* child when all are side chains; consecutive messages are parent and
\* child, and the last message has no children.
C11_MainThreadFollowsFirstMainChild ==
    /\ pc # "thread_raised"
    /\ pc = "thread" =>
          \A i \in 1..Len(thread) :
              LET kids == ChildMessages(thread[i])
                  main == SelectSeq(kids, LAMBDA m : ~m.is_sidechain)
              IN  IF i = Len(thread) THEN kids = << >>
                  ELSE /\ kids # << >>
                       /\ thread[i + 1] = (IF main # << >> THEN main[1].uuid
                                           ELSE kids[1].uuid)
                       /\ Get(messages, thread[i + 1]).parent_uuid = thread[i]

\* C35: for a tree that holds a user or assistant message get_main_thread
\* returns, and what it returns is not empty and starts at a message that
\* is listed as a root and has no parent.
C35_MainThreadNotEmpty ==
    (\E i \in 1..Len(messages) : messages[i].type \in {"user", "assistant"}) =>
        /\ pc # "thread_raised"
        /\ pc = "thread" =>
              /\ thread # << >>
              /\ InSeq(root_uuids, thread[1])
              /\ Get(messages, thread[1]).parent_uuid = None

----------------------------------------------------------------------------
(* FileRestorer.restore_to_sandbox and cleanup (teleport/restore.py        *)
(* 111-176) with TeleportSandbox (teleport/sandbox.py 138-246).            *)

\* Highest version number of a checkpoint file.
MaxVersion == 2

Hashes == {"hashA", "hashB"}

\* Where FileHistoryManager lists the hashes of a session: dict order.
HashOrder == <<"hashA", "hashB">>

\* FileCheckpoint (models.py 152-164): a checkpoint file of the session.
FileCheckpoint(path_hash, version) == [path_hash |-> path_hash, version |-> version]

\* The bytes FileCheckpoint.read_content returns for a checkpoint file.
Content(checkpoint) == <<checkpoint.path_hash, checkpoint.version>>

\* An absolute path is the sequence of its components.
OriginalPath(path_hash) ==
    IF path_hash = "hashA" THEN <<"src", "a.py">> ELSE <<"src", "b.py">>

\* Session.project_display and the directory tempfile.mkdtemp makes.
ProjectDisplay == <<"proj">>
TempDir == <<"tmp", "teleport_1">>

\* The versions of a set of checkpoint files, ascending.
RECURSIVE AscendingVersions(_)
AscendingVersions(versions) ==
    IF versions = {} THEN << >>
    ELSE LET top == CHOOSE v \in versions : \A w \in versions : w <= v
         IN  Append(AscendingVersions(versions \ {top}), top)

\* FileHistoryManager.get_checkpoints_for_session: the checkpoint files
\* grouped by hash and, within a hash, ordered by version ascending.  The
\* dict as the list of its items.
GetCheckpointsForSession(files) ==
    LET item(h) ==
            [path_hash |-> h,
             versions |-> [i \in 1..Cardinality({f \in files : f.path_hash = h}) |->
                 FileCheckpoint(h,
                     AscendingVersions({f.version : f \in {g \in files : g.path_hash = h}})[i])]]
    IN  SelectSeq([i \in 1..Len(HashOrder) |-> item(HashOrder[i])],
                  LAMBDA it : it.versions # << >>)

\* The sessions restored: any checkpoint files of two hashes, some of them
\* unreadable, and a path mapping that knows the path of some hashes
\* (build_path_mapping, restore.py 89-105, maps a hash to the path hashed).
Histories ==
    {[files |-> files, unreadable |-> unreadable,
      path_mapping |-> [h \in mapped |-> OriginalPath(h)]] :
        files \in SUBSET {FileCheckpoint(h, v) : h \in Hashes, v \in 1..MaxVersion},
        unreadable \in SUBSET {FileCheckpoint(h, v) : h \in Hashes, v \in 1..MaxVersion},
        mapped \in SUBSET Hashes}

\* The first version instead of the last.
Oldest(versions) == versions[1]

\* The version a restore "as of the target message" would take: the first
\* one when a target is given.
LatestAtTarget(versions) ==
    IF Truthy(restore.message_uuid) THEN versions[1] ELSE versions[Len(versions)]

\* restore.py 140: latest = versions[-1].
Latest(versions) == versions[Len(versions)]

IsPrefix(p, q) == Len(p) <= Len(q) /\ SubSeq(q, 1, Len(p)) = p

\* restore.py 156-157: the path under the sandbox's working directory.
SandboxPath(sb, original_path) == sb.working_dir \o original_path

\* sandbox.py 238-243: the host file of a sandbox path.
HostPath(sb, path) ==
    IF IsPrefix(sb._requested_workdir, path)
    THEN sb._host_dir \o SubSeq(path, Len(sb._requested_workdir) + 1, Len(path))
    ELSE sb._host_dir \o path

\* dict[key] = value.
SetItem(dict, key, value) ==
    [k \in DOMAIN dict \cup {key} |-> IF k = key THEN value ELSE dict[k]]

\* A stop that resets _started only.
StoppedStillIsolated(sb) == [sb EXCEPT !._started = FALSE]

\* sandbox.py 205-206.
Stopped(sb) == [sb EXCEPT !._started = FALSE, !._using_sandbox = FALSE]

RestoreInit ==
    /\ pc = "idle"
    /\ TreeInit
    /\ data = OtherLine("empty")
    /\ result = Pending
    /\ thread = << >>
    /\ history \in {h \in Histories : h.unreadable \subseteq h.files}
    /\ TeleportIdle
    /\ ListingIdle
    /\ AppIdle

restoreUnchanged == <<treeVars, data, result, thread, history, listingVars, appVars>>

\* restore.py 124-126 with sandbox.py 169-176: the sandbox object is made
\* and start() creates the host directory.
StartMakesHostDir(message_uuid) ==
    /\ pc = "idle"
    /\ pc' = "starting"
    /\ sandbox' = [NewSandbox(ProjectDisplay) EXCEPT !._host_dir = TempDir,
                                                     !.working_dir = TempDir]
    /\ host' = [NoHost EXCEPT !.exists = TRUE]
    /\ restore' = [NoRestore EXCEPT !.message_uuid = message_uuid]
    /\ teleport_session' = NoSession
    /\ UNCHANGED <<runs, restoreUnchanged>>

\* sandbox.py 173-175: tempfile.mkdtemp raises; start() and the restore
\* end with its error before anything was acquired.
StartRaises(message_uuid) ==
    /\ pc = "idle"
    /\ pc' = "restore_raised"
    /\ sandbox' = NewSandbox(ProjectDisplay)
    /\ host' = NoHost
    /\ restore' = [NoRestore EXCEPT !.message_uuid = message_uuid,
                                    !.error = "mkdtemp"]
    /\ teleport_session' = NoSession
    /\ UNCHANGED <<runs, restoreUnchanged>>

\* sandbox.py 178-195 and restore.py 128-132: the microsandbox is started
\* when its server answers and accepts the start, local mode otherwise;
\* then the checkpoints are listed.
StartCompletes(server_running, start_ok) ==
    /\ pc = "starting"
    /\ pc' = "restoring"
    /\ sandbox' = [sandbox EXCEPT !._using_sandbox = server_running /\ start_ok,
                                  !._started = TRUE]
    /\ host' = [host EXCEPT !.running = server_running /\ start_ok]
    /\ restore' = [restore EXCEPT !.todo = GetCheckpointsForSession(history.files)]
    /\ UNCHANGED <<teleport_session, runs, restoreUnchanged>>

\* restore.py 136-146: a hash without versions or without a known
\* original path is passed over.
SkipHash ==
    /\ pc = "restoring"
    /\ restore.todo # << >>
    /\ \/ restore.todo[1].versions = << >>
       \/ restore.todo[1].path_hash \notin DOMAIN history.path_mapping
    /\ restore' = [restore EXCEPT !.todo = Tail(restore.todo)]
    /\ UNCHANGED <<pc, sandbox, host, teleport_session, runs, restoreUnchanged>>

\* The hash at the head of the loop has versions and a path.
Restorable ==
    /\ pc = "restoring"
    /\ restore.todo # << >>
    /\ restore.todo[1].versions # << >>
    /\ restore.todo[1].path_hash \in DOMAIN history.path_mapping

\* restore.py 149-152: read_content raised and the hash is passed over.
ReadFails ==
    /\ Restorable
    /\ Latest(restore.todo[1].versions) \in history.unreadable
    /\ restore' = [restore EXCEPT !.todo = Tail(restore.todo)]
    /\ UNCHANGED <<pc, sandbox, host, teleport_session, runs, restoreUnchanged>>

\* restore.py 154-161 with sandbox.py 232-246: the content is written
\* under the host directory and the path recorded.
WriteFile ==
    /\ Restorable
    /\ Latest(restore.todo[1].versions) \notin history.unreadable
    /\ LET path_hash == restore.todo[1].path_hash
           original_path == history.path_mapping[path_hash]
           content == Content(Latest(restore.todo[1].versions))
           sandbox_path == SandboxPath(sandbox, original_path)
       IN  /\ sandbox._host_dir # << >>
           /\ host' = [host EXCEPT !.exists = TRUE,
                          !.files = SetItem(host.files, HostPath(sandbox, sandbox_path), content)]
           /\ sandbox' = [sandbox EXCEPT
                          !.files = SetItem(sandbox.files, sandbox_path, content)]
           /\ restore' = [restore EXCEPT !.todo = Tail(restore.todo),
                          !.files_restored = SetItem(restore.files_restored, original_path, path_hash)]
    /\ UNCHANGED <<pc, teleport_session, runs, restoreUnchanged>>

\* restore.py 160: write_file raised (mkdir or write_bytes failed); the
\* call is not inside a try, so the error leaves restore_to_sandbox.
WriteRaises ==
    /\ Restorable
    /\ Latest(restore.todo[1].versions) \notin history.unreadable
    /\ pc' = "restore_raised"
    /\ restore' = [restore EXCEPT !.error = "write"]
    /\ UNCHANGED <<sandbox, host, teleport_session, runs, restoreUnchanged>>

\* restore.py 163-172: the TeleportSession is returned.
ReturnSession ==
    /\ pc = "restoring"
    /\ restore.todo = << >>
    /\ pc' = "ready"
    /\ teleport_session' =
           [restore_point |-> IF Truthy(restore.message_uuid)
                              THEN restore.message_uuid ELSE "latest",
            files_restored |-> restore.files_restored]
    /\ runs' = runs \cup {[message_uuid |-> restore.message_uuid,
                           restore_point |-> teleport_session'.restore_point,
                           files_restored |-> restore.files_restored,
                           files |-> host.files]}
    /\ UNCHANGED <<sandbox, host, restore, restoreUnchanged>>

\* restore.py 174-176 with sandbox.py 199-203: cleanup calls stop(), which
\* asks the server to stop a started microsandbox and ignores a failure.
StopBegins(stop_ok) ==
    /\ pc = "ready"
    /\ pc' = "stopping"
    /\ host' = IF sandbox._started /\ sandbox._using_sandbox /\ stop_ok
               THEN [host EXCEPT !.running = FALSE]
               ELSE host
    /\ UNCHANGED <<sandbox, restore, teleport_session, runs, restoreUnchanged>>

\* sandbox.py 205-210: the flags are reset and the host directory removed.
StopCompletes ==
    /\ pc = "stopping"
    /\ pc' = "idle"
    /\ sandbox' = Stopped(sandbox)
    /\ host' = IF sandbox._host_dir # << >> /\ host.exists
               THEN [host EXCEPT !.exists = FALSE, !.files = EmptyDict]
               ELSE host
    /\ UNCHANGED <<restore, teleport_session, runs, restoreUnchanged>>

RestoreNext ==
    \/ \E message_uuid \in {None, "a"} : StartMakesHostDir(message_uuid)
    \/ \E message_uuid \in {None, "a"} : StartRaises(message_uuid)
    \/ \E server_running, start_ok \in BOOLEAN : StartCompletes(server_running, start_ok)
    \/ SkipHash
    \/ ReadFails
    \/ WriteFile
    \/ WriteRaises
    \/ ReturnSession
    \/ \E stop_ok \in BOOLEAN : StopBegins(stop_ok)
    \/ StopCompletes

RestoreSpec == RestoreInit /\ [][RestoreNext]_vars

----------------------------------------------------------------------------
(* What a restore should do, read off the session's checkpoint files.      *)

\* The hashes that have a checkpoint file.
IndexedHashes == {f.path_hash : f \in history.files}

\* The checkpoint file of the greatest version of a hash.
MaxVersionFile(h) ==
    CHOOSE f \in history.files :
        /\ f.path_hash = h
        /\ \A g \in history.files : g.path_hash = h => g.version <= f.version

\* The hashes with a known path whose greatest version can be read.
RestorableHashes ==
    {h \in IndexedHashes \cap DOMAIN history.path_mapping :
        MaxVersionFile(h) \notin history.unreadable}

\* The hashes without a known path.
UnresolvableHashes == IndexedHashes \ DOMAIN history.path_mapping

Range(f) == {f[x] : x \in DOMAIN f}

\* C12: when restore_to_sandbox returns, the sandbox holds, for each hash
\* of the index with a path in the mapping (and a readable checkpoint),
\* the bytes of the greatest version of that hash and nothing else, and
\* files_restored holds exactly the original paths written.
C12_RestoresLatestOfEachMappedHash ==
    pc = "ready" =>
        /\ DOMAIN teleport_session.files_restored =
               {history.path_mapping[h] : h \in RestorableHashes}
        /\ \A h \in RestorableHashes :
               /\ teleport_session.files_restored[history.path_mapping[h]] = h
               /\ sandbox.files[SandboxPath(sandbox, history.path_mapping[h])] =
                      Content(MaxVersionFile(h))
               /\ host.files[HostPath(sandbox, SandboxPath(sandbox, history.path_mapping[h]))] =
                      Content(MaxVersionFile(h))
        /\ DOMAIN sandbox.files =
               {SandboxPath(sandbox, history.path_mapping[h]) : h \in RestorableHashes}
        /\ DOMAIN host.files =
               {HostPath(sandbox, SandboxPath(sandbox, history.path_mapping[h])) :
                   h \in RestorableHashes}

\* The example: hashA@v1, hashA@v2, hashB@v1 with only hashA mapped has
\* been restored to exactly src/a.py with the bytes of v2.
C12_Witness ==
    /\ pc = "ready"
    /\ history.files = {FileCheckpoint("hashA", 1), FileCheckpoint("hashA", 2),
                        FileCheckpoint("hashB", 1)}
    /\ DOMAIN history.path_mapping = {"hashA"}
    /\ DOMAIN teleport_session.files_restored = {<<"src", "a.py">>}
    /\ Range(host.files) = {Content(FileCheckpoint("hashA", 2))}

\* C13: the TeleportSession restore returns names every hash of the index
\* that has no known original path.
C13_UnresolvableHashesReported ==
    pc = "ready" =>
        UnresolvableHashes \subseteq
            Range(teleport_session.files_restored) \cup {teleport_session.restore_point}

\* C14: a failure to read a checkpoint or to write a file never leaves
\* restore_to_sandbox; the file is left out of files_restored and the call
\* returns.
C14_ReadAndWriteFailuresAreCaught ==
    /\ restore.error \notin {"read", "write"}
    /\ pc = "ready" =>
          \A h \in IndexedHashes \cap DOMAIN history.path_mapping :
              MaxVersionFile(h) \in history.unreadable =>
                  history.path_mapping[h] \notin DOMAIN teleport_session.files_restored

\* C15: when restore_to_sandbox has ended with an error, the temporary
\* host directory is gone and no sandbox is left started.
C15_FailedRestoreReleasesResources ==
    pc = "restore_raised" =>
        /\ restore.error # "none"
        /\ ~host.exists
        /\ ~host.running
        /\ ~sandbox._started

\* The steps of the orchestrator; an error leaves it from starting the
\* sandbox or from restoring.
OrchestratorSteps ==
    {<<"idle", "starting">>, <<"starting", "restoring">>, <<"restoring", "ready">>,
     <<"ready", "stopping">>, <<"stopping", "idle">>,
     <<"idle", "restore_raised">>, <<"restoring", "restore_raised">>}

\* A file appears in the host directory or changes.
FileWritten ==
    \E f \in DOMAIN host'.files : f \notin DOMAIN host.files \/ host'.files[f] # host.files[f]

\* C16: the orchestrator goes idle, starting, restoring, ready, stopping,
\* idle; a file is written only between the end of start and the return
\* of the restore; whenever it is idle the sandbox is not started, not
\* isolated and its host directory is removed.
C16_OrchestratorLifecycle ==
    /\ [](pc = "idle" => ~sandbox._started /\ ~sandbox._using_sandbox /\ ~host.exists)
    /\ [][pc' # pc => <<pc, pc'>> \in OrchestratorSteps]_vars
    /\ [][FileWritten => pc = "restoring" /\ pc' = "restoring" /\ sandbox._started]_vars

\* A sandbox that was isolated and held a restored file has been stopped.
C16_Witness ==
    /\ pc = "idle"
    /\ sandbox._host_dir # << >>
    /\ sandbox.files # EmptyDict
    /\ teleport_session.files_restored # EmptyDict

\* C27: after restore_to_sandbox the content of original path /p/q is
\* found in the host directory at <working_dir>/p/q.
C27_RestoredFileUnderWorkingDir ==
    pc = "ready" =>
        \A original_path \in DOMAIN teleport_session.files_restored :
            /\ SandboxPath(sandbox, original_path) \in DOMAIN host.files
            /\ host.files[SandboxPath(sandbox, original_path)] =
                   Content(MaxVersionFile(teleport_session.files_restored[original_path]))

----------------------------------------------------------------------------
(* FileRestorer.get_restorable_points (teleport/restore.py 45-87).         *)

\* Most messages of a session whose restore points are listed.
MaxMessages == 22

\* restore.py 87: points[:20].
RestorePointLimit == 20

\* RestorePoint (restore.py 15-22) without its description.
RestorePoint(message_uuid, timestamp, file_count) ==
    [message_uuid |-> message_uuid, timestamp |-> timestamp, file_count |-> file_count]

\* restore.py 73: the tool uses that modify a file.
FileTools(msg) == SelectSeq(msg.tool_uses, LAMBDA t : t.name \in {"Write", "Edit"})

\* restore.py 63-83: the restore points a message adds to the list.
PointsOf(msg, checkpoints) ==
    IF msg.type = "file-history-snapshot"
    THEN <<RestorePoint(msg.uuid, msg.timestamp, checkpoints)>>
    ELSE IF msg.type = "assistant" /\ msg.tool_uses # << >> /\ FileTools(msg) # << >>
    THEN <<RestorePoint(msg.uuid, msg.timestamp, Len(FileTools(msg)))>>
    ELSE << >>

\* models.py 144-149: all_messages() sorts the dict's values by naive
\* timestamp, stable and ascending.
AllMessages(msgs) == SortByTs(msgs)

\* a < b on two datetimes that are both aware (in UTC) or both naive.
TsLess(a, b) == a.wall < b.wall

\* Comparing an aware datetime with a naive one raises TypeError, and a
\* sort of two or more keys compares across any split of them.
SortRaises(pts) ==
    \E i, j \in 1..Len(pts) : pts[i].timestamp.aware # pts[j].timestamp.aware

\* One step of sort(reverse=True), which keeps the order of equal keys:
\* p goes after every point whose timestamp is not less than its own.
InsertDescending(sorted, p) ==
    LET n == Cardinality({i \in 1..Len(sorted) : ~TsLess(sorted[i].timestamp, p.timestamp)})
    IN  SubSeq(sorted, 1, n) \o <<p>> \o SubSeq(sorted, n + 1, Len(sorted))

\* restore.py 86: points.sort(key=lambda p: p.timestamp, reverse=True).
RECURSIVE SortDescending(_)
SortDescending(pts) ==
    IF pts = << >> THEN << >>
    ELSE InsertDescending(SortDescending(SubSeq(pts, 1, Len(pts) - 1)), pts[Len(pts)])

\* A return of the whole list.
Uncapped(pts) == pts

\* restore.py 87: points[:20].
Capped(pts) ==
    IF Len(pts) <= RestorePointLimit THEN pts ELSE SubSeq(pts, 1, RestorePointLimit)

\* The type and the tool uses of a message.
Kind(type, tool_uses) == [type |-> type, tool_uses |-> tool_uses]

\* The sessions listed: their messages repeat one of these runs of kinds:
\* snapshots; assistant turns that write; user turns and plain answers;
\* turns that read, edit and write, with snapshots; summaries and reads.
KindCycles ==
    {<<Kind("file-history-snapshot", << >>)>>,
     <<Kind("assistant", <<ToolUse("Write", "/src/a.py")>>)>>,
     <<Kind("user", << >>), Kind("assistant", << >>)>>,
     <<Kind("user", << >>),
       Kind("assistant", <<ToolUse("Read", "/src/a.py"), ToolUse("Edit", "/src/a.py"),
                           ToolUse("Write", "/src/b.py")>>),
       Kind("file-history-snapshot", << >>)>>,
     <<Kind("summary", << >>),
       Kind("assistant", <<ToolUse("Read", "/src/a.py")>>),
       Kind("assistant", <<ToolUse("Write", "/src/a.py")>>),
       Kind("user", << >>)>>}

\* A session of n messages m1..mn: the kinds repeat cycle, the timestamps
\* advance by step around the clock, and the first `naive` messages carry
\* the naive timestamp of a record whose timestamp did not parse.
SessionMessages(n, cycle, step, naive) ==
    [i \in 1..n |->
        [Message("m" \o ToString(i), None, cycle[(i % Len(cycle)) + 1].type,
                 Timestamp(1 + ((i * step) % MaxTime), i > naive))
            EXCEPT !.tool_uses = cycle[(i % Len(cycle)) + 1].tool_uses]]

PointsInit ==
    /\ pc = "listing"
    /\ \E n \in 0..MaxMessages : \E cycle \in KindCycles :
       \E step \in 0..(MaxTime - 1) : \E naive \in {0, 1, n} :
           /\ messages = SessionMessages(n, cycle, step, naive)
           /\ parsed = messages
           /\ root_uuids = [i \in 1..n |-> messages[i].uuid]
    /\ lineno = 0
    /\ children = EmptyDict
    /\ summaries = << >>
    /\ reparsed = {}
    /\ data = OtherLine("empty")
    /\ result = Pending
    /\ thread = << >>
    /\ history = NoHistory
    /\ TeleportIdle
    /\ points \in {[NoPoints EXCEPT !.checkpoints = c] : c \in 0..MaxVersion}
    /\ directory = NoDirectory
    /\ index = NoIndex
    /\ AppIdle

pointsUnchanged ==
    <<treeVars, data, result, thread, teleportVars, directory, index, appVars>>

\* restore.py 48-51: a session without checkpoints has no restore points.
NoCheckpoints ==
    /\ pc = "listing"
    /\ points.checkpoints = 0
    /\ pc' = "points"
    /\ UNCHANGED <<points, pointsUnchanged>>

\* restore.py 53-57: the walk over tree.all_messages() begins.
BeginWalk ==
    /\ pc = "listing"
    /\ points.checkpoints # 0
    /\ pc' = "walking"
    /\ points' = [points EXCEPT !.walk = AllMessages(messages)]
    /\ UNCHANGED pointsUnchanged

\* restore.py 58-83: one message of the walk.
VisitMessage ==
    /\ pc = "walking"
    /\ points.walk # << >>
    /\ points' =
           IF points.walk[1].uuid \in points.seen_messages
           THEN [points EXCEPT !.walk = Tail(points.walk)]
           ELSE [points EXCEPT
                    !.walk = Tail(points.walk),
                    !.seen_messages = points.seen_messages \cup {points.walk[1].uuid},
                    !.points = points.points \o PointsOf(points.walk[1], points.checkpoints)]
    /\ UNCHANGED <<pc, pointsUnchanged>>

\* restore.py 85-87: the points are sorted and the first 20 returned.
ReturnPoints ==
    /\ pc = "walking"
    /\ points.walk = << >>
    /\ ~SortRaises(points.points)
    /\ pc' = "points"
    /\ points' = [points EXCEPT !.points = Capped(SortDescending(points.points))]
    /\ UNCHANGED pointsUnchanged

\* restore.py 86: the sort compares an aware with a naive timestamp and
\* its TypeError leaves get_restorable_points.
SortPointsRaises ==
    /\ pc = "walking"
    /\ points.walk = << >>
    /\ SortRaises(points.points)
    /\ pc' = "points_raised"
    /\ UNCHANGED <<points, pointsUnchanged>>

PointsNext ==
    \/ NoCheckpoints
    \/ BeginWalk
    \/ VisitMessage
    \/ ReturnPoints
    \/ SortPointsRaises

PointsSpec == PointsInit /\ [][PointsNext]_vars

\* The messages the spec gives a restore point: the snapshots and the
\* assistant messages with a Write or Edit tool use.
CandidateMessages ==
    {i \in 1..Len(messages) :
        \/ messages[i].type = "file-history-snapshot"
        \/ /\ messages[i].type = "assistant"
           /\ \E k \in 1..Len(messages[i].tool_uses) :
                  messages[i].tool_uses[k].name \in {"Write", "Edit"}}

\* The messages that have k points in the returned list.
WithPoints(k) ==
    {i \in 1..Len(messages) :
        Cardinality({j \in 1..Len(points.points) :
                        points.points[j].message_uuid = messages[i].uuid}) = k}

\* C17: get_restorable_points returns exactly one restore point for each
\* snapshot message and each assistant message with a Write or Edit tool
\* use, and none for any other message.
C17_OnePointPerFileChangingMessage ==
    /\ pc # "points_raised"
    /\ pc = "points" =>
          /\ WithPoints(1) = CandidateMessages
          /\ WithPoints(0) = (1..Len(messages)) \ CandidateMessages

\* The points the walk made before the sort: none for a session without
\* checkpoints.
CandidatePoints == IF points.checkpoints = 0 THEN {} ELSE CandidateMessages

\* C18: the returned list is ordered by timestamp descending and holds at
\* most 20 points, the most recent of all the candidate points.
C18_MostRecentTwentyDescending ==
    pc = "points" =>
        /\ Len(points.points) <= RestorePointLimit
        /\ \A i, j \in 1..Len(points.points) :
               i < j => ~TsLess(points.points[i].timestamp, points.points[j].timestamp)
        /\ IF Cardinality(CandidatePoints) <= RestorePointLimit
           THEN WithPoints(1) = CandidatePoints
           ELSE Len(points.points) = RestorePointLimit
        /\ WithPoints(1) \subseteq CandidatePoints
        /\ \A i \in WithPoints(1) : \A k \in CandidatePoints \ WithPoints(1) :
               ~TsLess(messages[i].timestamp, messages[k].timestamp)

\* C38: get_restorable_points never raises: the sort of the points it has
\* collected succeeds for every tree, as the sort of all_messages does.
C38_RestorablePointsNeverRaise ==
    /\ pc # "points_raised"
    /\ (pc = "walking" /\ points.walk = << >>) => ~SortRaises(points.points)
    /\ Len(AllMessages(messages)) = Len(messages)

\* More than 20 candidate points at different times were cut to 20.
C18_Witness ==
    /\ pc = "points"
    /\ Cardinality(CandidatePoints) > RestorePointLimit
    /\ Len(points.points) = RestorePointLimit
    /\ points.points[1].timestamp # points.points[RestorePointLimit].timestamp
    /\ \E k \in CandidatePoints \ WithPoints(1) :
           messages[k].timestamp # points.points[1].timestamp

----------------------------------------------------------------------------
(* ClaudeScanner.get_file_checkpoints (core/scanner.py 181-207).           *)

\* Most entries of a session's checkpoint directory.
MaxEntries == 2

\* scanner.py 191: the hash is {16} characters long.
HashLength == 16

\* A file name is the sequence of its characters.
Repeat(c, n) == [i \in 1..n |-> c]

LowerHex == {"0", "9", "a", "f"}
DecimalDigits == {"0", "1", "2", "9"}

\* The code point of a character of the names.
Ord(c) ==
    [x \in {"\n", "-", ".", "0", "1", "2", "9", "@", "A", "V", "a", "b", "f", "g", "v"} |->
        CASE x = "\n" -> 10 [] x = "-" -> 45 [] x = "." -> 46 [] x = "0" -> 48
          [] x = "1" -> 49 [] x = "2" -> 50 [] x = "9" -> 57 [] x = "@" -> 64
          [] x = "A" -> 65 [] x = "V" -> 86 [] x = "a" -> 97 [] x = "b" -> 98
          [] x = "f" -> 102 [] x = "g" -> 103 [] x = "v" -> 118][c]

\* a < b on two str: the first differing character decides, a proper
\* prefix is less.
LexLess(a, b) ==
    \E k \in 1..(Len(b)) :
        /\ \A i \in 1..(k - 1) : i <= Len(a) /\ a[i] = b[i]
        /\ \/ k = Len(a) + 1
           \/ k <= Len(a) /\ Ord(a[k]) < Ord(b[k])

\* scanner.py 191 and 196: re.match of ^([a-f0-9]{16})@v(\d+)$ on the
\* name.  `$` matches at the end of the name and also before a newline
\* that ends it; `end` is the last character of the digits.
MatchedEnd(name) ==
    IF Len(name) > 0 /\ name[Len(name)] = "\n" THEN Len(name) - 1 ELSE Len(name)

PatternMatches(name) ==
    /\ MatchedEnd(name) >= HashLength + 3
    /\ \A i \in 1..HashLength : name[i] \in LowerHex
    /\ name[HashLength + 1] = "@"
    /\ name[HashLength + 2] = "v"
    /\ \A i \in (HashLength + 3)..MatchedEnd(name) : name[i] \in DecimalDigits

\* int() of a string of decimal digits.
RECURSIVE ParseInt(_)
ParseInt(digits) ==
    IF digits = << >> THEN 0
    ELSE 10 * ParseInt(SubSeq(digits, 1, Len(digits) - 1))
         + (Ord(digits[Len(digits)]) - 48)

\* scanner.py 197-206: the FileCheckpoint made of a matching name.
CheckpointOf(name) ==
    [path_hash |-> SubSeq(name, 1, HashLength),
     version |-> ParseInt(SubSeq(name, HashLength + 3, MatchedEnd(name))),
     file_path |-> name]

\* scanner.py 194: sorted(session_history_dir.iterdir()), paths of one
\* directory in the order of their names.
RECURSIVE SortedEntries(_)
SortedEntries(entries) ==
    IF entries = {} THEN << >>
    ELSE LET first == CHOOSE e \in entries :
                          \A f \in entries : f = e \/ LexLess(e.name, f.name)
         IN  <<first>> \o SortedEntries(entries \ {first})

\* The names found in the directories: versions 0, 2, 02 and 10 of two
\* hashes, and names that are off by one feature.
EntryNames ==
    {Repeat(c, HashLength) \o <<"@", "v">> \o digits :
        c \in {"a", "0"}, digits \in {<<"0">>, <<"2">>, <<"0", "2">>, <<"1", "0">>}}
    \cup {Repeat("a", HashLength - 1) \o <<"@", "v", "2">>,
          Repeat("a", HashLength + 1) \o <<"@", "v", "2">>,
          Repeat("A", HashLength) \o <<"@", "v", "2">>,
          Repeat("g", HashLength) \o <<"@", "v", "2">>,
          Repeat("a", HashLength) \o <<"@", "2">>,
          Repeat("a", HashLength) \o <<"@", "V", "2">>,
          Repeat("a", HashLength) \o <<"@", "v">>,
          Repeat("a", HashLength) \o <<"@", "v", "-", "1">>,
          Repeat("a", HashLength) \o <<"@", "v", "2", "a">>,
          Repeat("a", HashLength) \o <<"@", "v", "2", ".", "b">>,
          Repeat("a", HashLength) \o <<"@", "v", "2", "\n">>}

\* The sets of up to n files and subdirectories of different names.
RECURSIVE EntrySets(_)
EntrySets(n) ==
    IF n = 0 THEN {{}}
    ELSE EntrySets(n - 1) \cup
         {es \cup {[name |-> name, is_file |-> is_file]} :
             es \in EntrySets(n - 1),
             name \in EntryNames, is_file \in BOOLEAN}

\* The directories: absent, or with up to MaxEntries entries.
Directories ==
    {NoDirectory} \cup
    {[exists |-> TRUE, entries |-> entries] :
        entries \in {es \in EntrySets(MaxEntries) :
                        \A e, f \in es : e.name = f.name => e = f}}

IndexInit ==
    /\ pc = "indexing"
    /\ TreeInit
    /\ data = OtherLine("empty")
    /\ result = Pending
    /\ thread = << >>
    /\ history = NoHistory
    /\ TeleportIdle
    /\ points = NoPoints
    /\ directory \in Directories
    /\ index = NoIndex
    /\ AppIdle

indexUnchanged ==
    <<treeVars, data, result, thread, teleportVars, points, directory, appVars>>

\* scanner.py 185-186: no directory, no checkpoints.
MissingDirectory ==
    /\ pc = "indexing"
    /\ ~directory.exists
    /\ pc' = "indexed"
    /\ UNCHANGED <<index, indexUnchanged>>

\* scanner.py 188-194: the entries are listed and sorted.
ListDirectory ==
    /\ pc = "indexing"
    /\ directory.exists
    /\ pc' = "iterating"
    /\ index' = [index EXCEPT !.entries = SortedEntries(directory.entries)]
    /\ UNCHANGED indexUnchanged

\* scanner.py 195-197: an entry that is no file, or whose name does not
\* match, is passed over.
SkipEntry ==
    /\ pc = "iterating"
    /\ index.entries # << >>
    /\ ~(index.entries[1].is_file /\ PatternMatches(index.entries[1].name))
    /\ index' = [index EXCEPT !.entries = Tail(index.entries)]
    /\ UNCHANGED <<pc, indexUnchanged>>

\* scanner.py 197-206: a matching file is appended.
AppendCheckpoint ==
    /\ pc = "iterating"
    /\ index.entries # << >>
    /\ index.entries[1].is_file
    /\ PatternMatches(index.entries[1].name)
    /\ index' = [index EXCEPT
                    !.entries = Tail(index.entries),
                    !.checkpoints = Append(index.checkpoints,
                                           CheckpointOf(index.entries[1].name))]
    /\ UNCHANGED <<pc, indexUnchanged>>

\* scanner.py 207.
ReturnCheckpoints ==
    /\ pc = "iterating"
    /\ index.entries = << >>
    /\ pc' = "indexed"
    /\ UNCHANGED <<index, indexUnchanged>>

IndexNext ==
    \/ MissingDirectory
    \/ ListDirectory
    \/ SkipEntry
    \/ AppendCheckpoint
    \/ ReturnCheckpoints

IndexSpec == IndexInit /\ [][IndexNext]_vars

\* The grammar of a checkpoint's name: 16 lowercase hexadecimal
\* characters, '@v', and a non-negative integer in decimal digits.
WellFormedName(name) ==
    /\ Len(name) >= HashLength + 3
    /\ \A i \in 1..HashLength : name[i] \in LowerHex
    /\ name[HashLength + 1] = "@"
    /\ name[HashLength + 2] = "v"
    /\ \A i \in (HashLength + 3)..Len(name) : name[i] \in DecimalDigits

\* C19: the index has an entry for an entry of the directory exactly when
\* it is a file whose name follows the grammar; a missing directory gives
\* the empty index.
C19_IndexHoldsExactlyWellFormedFiles ==
    pc = "indexed" =>
        /\ \A e \in directory.entries :
               (\E i \in 1..Len(index.checkpoints) :
                    index.checkpoints[i].file_path = e.name)
               <=> (e.is_file /\ WellFormedName(e.name))
        /\ ~directory.exists => index.checkpoints = << >>

\* C20: within one hash the entries of the index are in ascending order
\* of their versions as integers.
C20_VersionsAscendingWithinHash ==
    pc = "indexed" =>
        \A i, j \in 1..Len(index.checkpoints) :
            (i < j /\ index.checkpoints[i].path_hash = index.checkpoints[j].path_hash)
                => index.checkpoints[i].version <= index.checkpoints[j].version

----------------------------------------------------------------------------
(* FileRestorer.build_path_mapping and the path hash (teleport/restore.py  *)
(* 40-43 and 89-109, core/parser.py 291-299, core/scanner.py 239-241).     *)

\* Most messages of the sessions whose paths are mapped, taken together.
MaxTreeMessages == 2

\* hashlib.sha256(...).hexdigest() is 64 hexadecimal characters long.
DigestLength == 64

SessionIds == {"s1", "s2"}

\* The paths the tool uses name; /lnk is a symbolic link to /src.
ToolPaths == {"/src/a.py", "/lnk/a.py", "/src/b.py"}

\* The digests; the first two agree on their first HashLength characters.
Digests ==
    <<Repeat("a", DigestLength),
      Repeat("a", HashLength) \o Repeat("b", DigestLength - HashLength),
      Repeat("c", DigestLength),
      Repeat("d", DigestLength)>>

\* sha256 of the encoded path is not computed but drawn from one-to-one
\* tables: the digest of /lnk/a.py agrees with that of /src/a.py on the
\* truncated part, or with none.
DigestTables ==
    {d \in [ToolPaths -> {Digests[i] : i \in DOMAIN Digests}] :
        /\ \A p, q \in ToolPaths : d[p] = d[q] => p = q
        /\ d["/src/a.py"] = Digests[1]
        /\ d["/src/b.py"] = Digests[3]}

\* ToolUse (models.py 27-32) with the two keys of its input that name a
\* path; None when the key is absent.
ToolUseInput(name, file_path, path) ==
    [name |-> name, file_path |-> file_path, path |-> path]

\* The tool uses of the messages: the five file tools naming a path under
\* either key, under both, under none, and a tool that is not a file tool.
MappedToolUses ==
    {<<ToolUseInput("Read", "/src/a.py", None)>>,
     <<ToolUseInput("Write", "/lnk/a.py", None)>>,
     <<ToolUseInput("Bash", "/src/a.py", None), ToolUseInput("Glob", None, "/src/b.py"),
       ToolUseInput("Read", None, "")>>,
     <<ToolUseInput("Edit", "/src/b.py", "/src/a.py"),
       ToolUseInput("Grep", "", "/lnk/a.py")>>}

\* parser.py 291-299.
extract_file_paths_from_message(msg) ==
    LET file_path(t) == IF Truthy(t.file_path) THEN t.file_path ELSE t.path
        named == SelectSeq(msg.tool_uses,
                     LAMBDA t : /\ t.name \in {"Read", "Write", "Edit", "Glob", "Grep"}
                                /\ Truthy(file_path(t)))
    IN  [i \in 1..Len(named) |-> file_path(named[i])]

\* The whole digest instead of its first characters.
FullDigest(path) == paths.sha256[path]

\* restore.py 107-109.
_compute_hash(path) == SubSeq(paths.sha256[path], 1, HashLength)

\* scanner.py 239-241.
compute_path_hash(file_path) == SubSeq(paths.sha256[file_path], 1, HashLength)

\* A mapping in which the last path seen for a hash wins.
RECURSIVE LastSeen(_, _)
LastSeen(mapping, ps) ==
    IF ps = << >> THEN mapping
    ELSE LastSeen(SetItem(mapping, _compute_hash(Head(ps)), Head(ps)), Tail(ps))

\* restore.py 98-101: the paths of one message are entered in the mapping
\* unless their hash is already a key.
RECURSIVE RecordPaths(_, _)
RecordPaths(mapping, ps) ==
    IF ps = << >> THEN mapping
    ELSE LET path_hash == _compute_hash(Head(ps))
         IN  RecordPaths(IF path_hash \in DOMAIN mapping THEN mapping
                         ELSE SetItem(mapping, path_hash, Head(ps)),
                         Tail(ps))

\* A cache that is never hit.
NeverCached(cache, session_id) == FALSE

\* restore.py 91: session.id in self._path_cache.
InCache(cache, session_id) == session_id \in DOMAIN cache

\* FileRestorer.__init__ (restore.py 40-43) and no call yet.  `builds` and
\* `returns` are history: the trees replayed and the mappings returned.
NewRestorer ==
    [_path_cache |-> EmptyDict, session_id |-> None, walk |-> << >>,
     mapping |-> EmptyDict, builds |-> [s \in SessionIds |-> << >>],
     returns |-> {}]

MappingInit ==
    /\ pc = "resolver"
    /\ TreeInit
    /\ data = OtherLine("empty")
    /\ result = Pending
    /\ thread = << >>
    /\ history = NoHistory
    /\ TeleportIdle
    /\ ListingIdle
    /\ paths \in {[sha256 |-> d, trees |-> [s \in SessionIds |-> << >>]] :
                     d \in DigestTables}
    /\ restorer = NewRestorer
    /\ projects = << >>
    /\ scan = << >>
    /\ title = << >>
    /\ tui = NoTeleport
    /\ SandboxIdle

mappingUnchanged ==
    <<treeVars, data, result, thread, teleportVars, listingVars, projects,
      scan, title, tui, sandboxVars>>

\* The session's log grows by a message between two calls.
MessagesChange(session_id, tool_uses, wall) ==
    /\ pc = "resolver"
    /\ Len(paths.trees["s1"]) + Len(paths.trees["s2"]) < MaxTreeMessages
    /\ LET tree == paths.trees[session_id]
           msg == [Message(ToString(Len(tree) + 1), None, "assistant",
                           Timestamp(wall, TRUE)) EXCEPT !.tool_uses = tool_uses]
       IN  paths' = [paths EXCEPT !.trees[session_id] = Append(tree, msg)]
    /\ UNCHANGED <<pc, restorer, mappingUnchanged>>

\* restore.py 91-92: the cached mapping is returned.
ReturnCached(session_id) ==
    /\ pc = "resolver"
    /\ InCache(restorer._path_cache, session_id)
    /\ restorer' = [restorer EXCEPT
           !.returns = @ \cup {[session_id |-> session_id, cached |-> TRUE,
                                mapping |-> restorer._path_cache[session_id]]}]
    /\ UNCHANGED <<pc, paths, mappingUnchanged>>

\* restore.py 94-97: the tree is loaded and its messages listed by time.
BeginMapping(session_id) ==
    /\ pc = "resolver"
    /\ ~InCache(restorer._path_cache, session_id)
    /\ pc' = "mapping"
    /\ restorer' = [restorer EXCEPT
           !.session_id = session_id,
           !.walk = AllMessages(paths.trees[session_id]),
           !.mapping = EmptyDict,
           !.builds[session_id] = Append(@, paths.trees[session_id])]
    /\ UNCHANGED <<paths, mappingUnchanged>>

\* restore.py 97-101: one message of the loop.
MapMessage ==
    /\ pc = "mapping"
    /\ restorer.walk # << >>
    /\ restorer' = [restorer EXCEPT
           !.walk = Tail(@),
           !.mapping = RecordPaths(@, extract_file_paths_from_message(Head(restorer.walk)))]
    /\ UNCHANGED <<pc, paths, mappingUnchanged>>

\* restore.py 103-105: the mapping is cached and returned; the locals of
\* the call are gone.
StoreMapping ==
    /\ pc = "mapping"
    /\ restorer.walk = << >>
    /\ pc' = "resolver"
    /\ restorer' = [restorer EXCEPT
           !._path_cache = SetItem(@, restorer.session_id, restorer.mapping),
           !.session_id = None,
           !.mapping = EmptyDict,
           !.returns = @ \cup {[session_id |-> restorer.session_id, cached |-> FALSE,
                                mapping |-> restorer.mapping]}]
    /\ UNCHANGED <<paths, mappingUnchanged>>

MappingNext ==
    \/ \E session_id \in SessionIds : \E tool_uses \in MappedToolUses :
       \E wall \in {1, 2} : MessagesChange(session_id, tool_uses, wall)
    \/ \E session_id \in SessionIds : ReturnCached(session_id)
    \/ \E session_id \in SessionIds : BeginMapping(session_id)
    \/ MapMessage
    \/ StoreMapping

MappingSpec == MappingInit /\ [][MappingNext]_vars

----------------------------------------------------------------------------
(* What the path mapping should hold, read off the session's log.          *)

\* The tool uses of a tree that name a path: the time of their message and
\* the path, for the file tools with a non-empty file_path or path.
Contributions(tree) ==
    {[wall |-> tree[i].timestamp.wall,
      path |-> IF tree[i].tool_uses[j].file_path \notin {None, ""}
               THEN tree[i].tool_uses[j].file_path
               ELSE tree[i].tool_uses[j].path] :
        <<i, j>> \in {<<i, j>> \in (DOMAIN tree) \X (1..3) :
            /\ j \in DOMAIN tree[i].tool_uses
            /\ tree[i].tool_uses[j].name \in {"Read", "Write", "Edit", "Glob", "Grep"}
            /\ \/ tree[i].tool_uses[j].file_path \notin {None, ""}
               \/ tree[i].tool_uses[j].path \notin {None, ""}}}

\* The mappings built so far: the tree replayed and the mapping cached.
Built ==
    {[tree |-> restorer.builds[s][1], mapping |-> restorer._path_cache[s]] :
        s \in DOMAIN restorer._path_cache}

\* C21: the mapping built from a tree has exactly the hashes of the paths
\* its file-tool uses name, and maps each hash to a path of that hash named
\* by a tool use no later than every other tool use of the hash.
C21_FirstSeenPathPerHash ==
    \A b \in Built :
        /\ DOMAIN b.mapping = {_compute_hash(c.path) : c \in Contributions(b.tree)}
        /\ \A h \in DOMAIN b.mapping :
               \E c \in Contributions(b.tree) :
                   /\ c.path = b.mapping[h]
                   /\ _compute_hash(c.path) = h
                   /\ \A d \in Contributions(b.tree) :
                          _compute_hash(d.path) = h => c.wall <= d.wall

\* The log names /lnk/a.py before /src/a.py but at a later time; both have
\* one hash and the mapping holds /src/a.py.
C21_Witness ==
    /\ pc = "resolver"
    /\ Len(paths.trees["s1"]) = 2
    /\ paths.trees["s1"][1].timestamp.wall = 2
    /\ paths.trees["s1"][1].tool_uses = <<ToolUseInput("Write", "/lnk/a.py", None)>>
    /\ paths.trees["s1"][2].timestamp.wall = 1
    /\ paths.trees["s1"][2].tool_uses = <<ToolUseInput("Read", "/src/a.py", None)>>
    /\ "s1" \in DOMAIN restorer._path_cache
    /\ restorer._path_cache["s1"] =
           [h \in {_compute_hash("/src/a.py")} |-> "/src/a.py"]
    /\ _compute_hash("/lnk/a.py") = _compute_hash("/src/a.py")

\* C22: the hash of a path has HashLength hexadecimal characters, is the
\* same whenever it is computed, and the resolver's hash equals the hash
\* of the checkpoint store for every path.
C22_HashesAgree ==
    /\ [](\A p \in ToolPaths :
             /\ Len(_compute_hash(p)) = HashLength
             /\ \A i \in 1..Len(_compute_hash(p)) :
                    _compute_hash(p)[i] \in
                        {"0", "1", "2", "3", "4", "5", "6", "7", "8", "9",
                         "a", "b", "c", "d", "e", "f"}
             /\ _compute_hash(p) = compute_path_hash(p))
    /\ [][\A p \in ToolPaths : _compute_hash(p)' = _compute_hash(p)]_vars

\* A mapping has been built whose key is the hash both functions give to
\* the path it holds.
C22_Witness ==
    \E s \in DOMAIN restorer._path_cache :
        \E h \in DOMAIN restorer._path_cache[s] :
            /\ compute_path_hash(restorer._path_cache[s][h]) = h
            /\ Len(h) = HashLength

\* C29: a session's tree is replayed at most once; every mapping returned
\* for a session is the one its first call returned; and it is the mapping
\* of the tree replayed for that session, not for another.
C29_MappingCachedPerSession ==
    /\ \A r1, r2 \in restorer.returns :
           r1.session_id = r2.session_id => r1.mapping = r2.mapping
    /\ \A s \in SessionIds : Len(restorer.builds[s]) <= 1
    /\ \A r \in restorer.returns :
           /\ restorer.builds[r.session_id] # << >>
           /\ DOMAIN r.mapping =
                  {_compute_hash(c.path) :
                      c \in Contributions(restorer.builds[r.session_id][1])}

\* Session s1 was mapped when it named no path, has named one since, and a
\* second call returned the empty mapping; s2 has a mapping of its own.
C29_Witness ==
    /\ [session_id |-> "s1", cached |-> TRUE, mapping |-> EmptyDict] \in restorer.returns
    /\ Contributions(paths.trees["s1"]) # {}
    /\ "s2" \in DOMAIN restorer._path_cache
    /\ restorer._path_cache["s2"] # EmptyDict

----------------------------------------------------------------------------
(* ClaudeScanner._generate_title (core/scanner.py 151-163).  A str is the  *)
(* sequence of its characters.                                             *)

\* scanner.py 160: len(title) > 200.
TitleLimit == 200
\* scanner.py 161: title[:197].
TitleKept == 197

\* How far the lengths of the messages run past the limit.
MaxExcess == 2

Whitespace == {" ", "\n", "\t"}

UntitledSession ==
    <<"U", "n", "t", "i", "t", "l", "e", "d", " ", "S", "e", "s", "s", "i", "o", "n">>

\* The first user messages: two words of any length about the limit, with
\* whitespace around and between them.
FirstMessages ==
    {pre \o Repeat("x", n) \o mid \o Repeat("y", k) \o post :
        pre \in {<< >>, <<"\n", " ">>},
        mid \in {<< >>, <<" ">>, <<" ", "\t">>},
        post \in {<< >>, <<" ">>},
        n \in {0, 1} \cup ((TitleKept - 1)..(TitleLimit + MaxExcess)),
        k \in {0, 1, 3}}

\* str.strip().
Strip(s) ==
    LET kept == {i \in 1..Len(s) : s[i] \notin Whitespace}
    IN  IF kept = {} THEN << >>
        ELSE SubSeq(s, CHOOSE i \in kept : \A j \in kept : i <= j,
                       CHOOSE i \in kept : \A j \in kept : j <= i)

\* re.sub(r"\s+", " ", title): each run of whitespace becomes one space.
CollapseWhitespace(s) ==
    LET marked == [i \in 1..Len(s) |->
                      IF s[i] \notin Whitespace THEN s[i]
                      ELSE IF i > 1 /\ s[i - 1] \in Whitespace THEN "" ELSE " "]
    IN  SelectSeq(marked, LAMBDA c : c # "")

\* A title of any length.
Untruncated(t) == t

\* scanner.py 160-161.
Truncate(t) ==
    IF Len(t) > TitleLimit THEN SubSeq(t, 1, TitleKept) \o <<".", ".", ".">> ELSE t

\* scanner.py 151-163.
_generate_title(first_message) ==
    IF first_message = << >> THEN UntitledSession
    ELSE LET t == Truncate(CollapseWhitespace(Strip(first_message)))
         IN  IF t = << >> THEN UntitledSession ELSE t

NoTitle == [first_message |-> << >>, returned |-> << >>]

TitleInit ==
    /\ pc = "titling"
    /\ TreeInit
    /\ data = OtherLine("empty")
    /\ result = Pending
    /\ thread = << >>
    /\ history = NoHistory
    /\ TeleportIdle
    /\ ListingIdle
    /\ paths = NoPaths
    /\ restorer = NoRestorer
    /\ projects = << >>
    /\ scan = << >>
    /\ title \in {[NoTitle EXCEPT !.first_message = m] : m \in FirstMessages}
    /\ tui = NoTeleport
    /\ SandboxIdle

\* The call returns.
GenerateTitle ==
    /\ pc = "titling"
    /\ pc' = "titled"
    /\ title' = [title EXCEPT !.returned = _generate_title(title.first_message)]
    /\ UNCHANGED <<treeVars, data, result, thread, teleportVars, listingVars,
                   paths, restorer, projects, scan, tui, sandboxVars>>

TitleSpec == TitleInit /\ [][GenerateTitle]_vars

\* The characters of a str that are not whitespace.
Letters(s) == SelectSeq(s, LAMBDA c : c \notin Whitespace)

\* C25: the title is never empty; it is "Untitled Session" for an empty or
\* whitespace-only message; otherwise it has at most TitleLimit characters,
\* no whitespace but single spaces between words, and holds the letters of
\* the message in order: all of them, or a prefix of them followed by
\* "..." when it was truncated.
C25_TitleNeverEmptyNormalizedBounded ==
    pc = "titled" =>
        LET m == title.first_message
            t == title.returned
            n == Len(t)
        IN  /\ t # << >>
            /\ Letters(m) = << >> => t = UntitledSession
            /\ Letters(m) # << >> =>
                  /\ n <= TitleLimit
                  /\ t[1] \notin Whitespace
                  /\ \A i \in 1..n : t[i] \in Whitespace =>
                         t[i] = " " /\ i < n /\ t[i + 1] \notin Whitespace
                  /\ \/ Letters(t) = Letters(m)
                     \/ /\ n = TitleLimit
                        /\ SubSeq(t, n - 2, n) = <<".", ".", ".">>
                        /\ IsPrefix(Letters(SubSeq(t, 1, n - 3)), Letters(m))
                        /\ Len(CollapseWhitespace(Strip(m))) > TitleLimit

\* A message longer than the limit, with whitespace to strip and to
\* collapse, got a title that ends in "...".
C25_Witness ==
    /\ pc = "titled"
    /\ Len(title.first_message) > TitleLimit
    /\ Head(title.first_message) \in Whitespace
    /\ \E i \in 1..(Len(title.first_message) - 1) :
           title.first_message[i] = " " /\ title.first_message[i + 1] = "\t"
    /\ Len(title.returned) = TitleLimit
    /\ title.returned[TitleLimit] = "."

----------------------------------------------------------------------------
(* ClaudeScanner.scan_all, _scan_project and _scan_session_file            *)
(* (core/scanner.py 21-149) with the Session dataclass (core/models.py     *)
(* 167-192).  A file name is the sequence of its characters.               *)

\* Most log files of a project directory.
MaxFiles == 2

\* A line of a log: empty after strip(), not decodable, a JSON value that
\* is no object, or an object with its type, its sessionId (None when the
\* key is absent) and the content of its message.
ScanLine(kind, type, sessionId, content) ==
    [kind |-> kind, type |-> type, sessionId |-> sessionId, content |-> content]

\* A *.jsonl file: its stem, whether it can be opened, its st_mtime and
\* its lines.
LogFile(stem, readable, mtime, lines) ==
    [stem |-> stem, readable |-> readable, mtime |-> mtime, lines |-> lines]

\* The log files a project directory may hold, in the order of their names.
LogFiles ==
    <<LogFile(<<"a", "g", "e", "n", "t", "-", "1">>, TRUE, 2,
         <<ScanLine("object", "user", <<"s", "1">>, <<"g", "o">>)>>),
      LogFile(<<"a", "g", "e", "n", "t", "-", "2">>, TRUE, 1,
         <<ScanLine("object", "file-history-snapshot", None, << >>),
           ScanLine("object", "assistant", <<"s", "9">>, << >>)>>),
      LogFile(<<"s", "1">>, TRUE, 1,
         <<ScanLine("object", "user", <<"s", "1">>, <<"h", "i">>),
           ScanLine("object", "assistant", <<"s", "1">>, << >>),
           ScanLine("object", "file-history-snapshot", None, << >>)>>),
      LogFile(<<"s", "2">>, TRUE, 2,
         <<ScanLine("undecodable", "", None, << >>),
           ScanLine("nonobject", "", None, << >>),
           ScanLine("empty", "", None, << >>),
           ScanLine("object", "summary", None, << >>)>>),
      LogFile(<<"s", "3">>, TRUE, 1,
         <<ScanLine("object", "file-history-snapshot", None, << >>),
           ScanLine("object", "system", <<"s", "3">>, << >>)>>),
      LogFile(<<"s", "4">>, FALSE, 2,
         <<ScanLine("object", "user", <<"s", "4">>, <<"h", "i">>)>>)>>

\* The lists of at most n of the first k log files, in the order of
\* their names.
RECURSIVE FileLists(_, _)
FileLists(k, n) ==
    IF k = 0 THEN {<< >>}
    ELSE FileLists(k - 1, n)
         \cup {Append(fs, LogFiles[k]) : fs \in IF n = 0 THEN {} ELSE FileLists(k - 1, n - 1)}

\* An entry of ~/.claude/projects: a project directory or a plain file.
Entry(name, is_dir, files) == [name |-> name, is_dir |-> is_dir, files |-> files]

NoTree == [exists |-> FALSE, entries |-> << >>]

\* ~/.claude/projects: missing, or two project directories and a plain
\* file, in the order of their names.
ProjectTrees ==
    {NoTree}
    \cup {[exists |-> TRUE,
           entries |-> <<Entry("-p1", TRUE, f1), Entry("-p2", TRUE, f2),
                         Entry("notes", FALSE, << >>)>>] :
              f1, f2 \in FileLists(Len(LogFiles), MaxFiles)}

\* scanner.py 72: session_id.startswith("agent-").
IsAgent(session_id) == IsPrefix(<<"a", "g", "e", "n", "t", "-">>, session_id)

\* scanner.py 85-122: the lines orjson decodes to an object; the others
\* are passed over (empty) or raise inside the try and are passed over.
Objects(lines) == SelectSeq(lines, LAMBDA l : l.kind = "object")

\* scanner.py 95-99.
MessageCount(lines) ==
    Len(SelectSeq(Objects(lines), LAMBDA l : l.type \in {"user", "assistant", "summary"}))

CheckpointCount(lines) ==
    Len(SelectSeq(Objects(lines), LAMBDA l : l.type = "file-history-snapshot"))

\* scanner.py 91-93: the sessionId of the first object that has one.
ParentSessionId(session_id, lines) ==
    LET declared == SelectSeq(Objects(lines), LAMBDA l : l.sessionId # None)
    IN  IF IsAgent(session_id) /\ declared # << >> THEN declared[1].sessionId ELSE None

\* scanner.py 111-121: the content of the first user message that has one.
FirstUserMessage(lines) ==
    LET said == SelectSeq(Objects(lines), LAMBDA l : l.type = "user" /\ l.content # << >>)
    IN  IF said = << >> THEN << >> ELSE said[1].content

\* models.py 167-192: the fields of the dataclass.
SessionFields ==
    {"id", "project_path", "project_display", "jsonl_path", "created_at",
     "updated_at", "message_count", "checkpoint_count", "title", "summary",
     "embedding", "tags", "message_tree", "checkpoints"}

\* The __init__ the dataclass generates: the sessions made, none when a
\* keyword names no field (TypeError).
Session(kwargs) == IF DOMAIN kwargs \subseteq SessionFields THEN <<kwargs>> ELSE << >>

\* scanner.py 62-149: the Session of a log file, as a list of one, or the
\* empty list for None.  Every exception ends in `return None`.
_scan_session_file(file, project) ==
    IF ~file.readable \/ MessageCount(file.lines) = 0 THEN << >>
    ELSE Session([id |-> file.stem,
                  project_path |-> project.name,
                  project_display |-> project.name,
                  jsonl_path |-> <<project.name, file.stem>>,
                  created_at |-> file.mtime,
                  updated_at |-> file.mtime,
                  message_count |-> MessageCount(file.lines),
                  checkpoint_count |-> CheckpointCount(file.lines),
                  title |-> _generate_title(FirstUserMessage(file.lines)),
                  is_agent |-> IsAgent(file.stem),
                  parent_session_id |-> ParentSessionId(file.stem, file.lines)])

\* scanner.py 49-55: each agent session with an owner among the sessions
\* of the project is appended to the owner's child list.
LinkAgents(sessions) ==
    LET agents(id) ==
            SelectSeq(sessions, LAMBDA a : /\ a.is_agent
                                           /\ a.parent_session_id \notin {None, << >>}
                                           /\ a.parent_session_id = id)
    IN  [i \in DOMAIN sessions |->
            [sessions[i] EXCEPT !.child_agent_ids =
                @ \o [k \in DOMAIN agents(sessions[i].id) |-> agents(sessions[i].id)[k].id]]]

\* scanner.py 58: sort by updated_at, reverse=True (stable).
RECURSIVE SortByUpdated(_)
SortByUpdated(sessions) ==
    IF sessions = << >> THEN << >>
    ELSE LET rest == SortByUpdated(Tail(sessions))
             before == SelectSeq(rest, LAMBDA t : t.updated_at > Head(sessions).updated_at)
             after == SelectSeq(rest, LAMBDA t : t.updated_at <= Head(sessions).updated_at)
         IN  before \o <<Head(sessions)>> \o after

\* The locals of scan_all and _scan_project: the entry and the file they
\* are at, the sessions of the project, the projects to return.
NoScan == [entry |-> 1, file |-> 1, sessions |-> << >>, projects |-> << >>]

ScanInit ==
    /\ pc = "scanning"
    /\ TreeInit
    /\ data = OtherLine("empty")
    /\ result = Pending
    /\ thread = << >>
    /\ history = NoHistory
    /\ TeleportIdle
    /\ ListingIdle
    /\ paths = NoPaths
    /\ restorer = NoRestorer
    /\ projects \in ProjectTrees
    /\ scan = NoScan
    /\ title = << >>
    /\ tui = NoTeleport
    /\ SandboxIdle

scanUnchanged ==
    <<treeVars, data, result, thread, teleportVars, listingVars, paths, restorer,
      projects, title, tui, sandboxVars>>

\* scanner.py 25-26: no projects directory, no projects.
ProjectsDirMissing ==
    /\ pc = "scanning"
    /\ ~projects.exists
    /\ pc' = "scanned"
    /\ UNCHANGED <<scan, scanUnchanged>>

\* scanner.py 28-29: an entry that is no directory is passed over.
SkipPlainFile ==
    /\ pc = "scanning"
    /\ projects.exists
    /\ scan.entry <= Len(projects.entries)
    /\ ~projects.entries[scan.entry].is_dir
    /\ scan' = [scan EXCEPT !.entry = @ + 1]
    /\ UNCHANGED <<pc, scanUnchanged>>

\* scanner.py 44-47: one log file of the project is scanned and its
\* session, if there is one, appended.
ScanSessionFile ==
    /\ pc = "scanning"
    /\ projects.exists
    /\ scan.entry <= Len(projects.entries)
    /\ projects.entries[scan.entry].is_dir
    /\ scan.file <= Len(projects.entries[scan.entry].files)
    /\ scan' = [scan EXCEPT
           !.file = @ + 1,
           !.sessions = @ \o _scan_session_file(
                                 projects.entries[scan.entry].files[scan.file],
                                 projects.entries[scan.entry])]
    /\ UNCHANGED <<pc, scanUnchanged>>

\* scanner.py 49-60 and 30-32: the agents are linked, the sessions sorted,
\* and the project listed when it has a session.
EndProject ==
    /\ pc = "scanning"
    /\ projects.exists
    /\ scan.entry <= Len(projects.entries)
    /\ projects.entries[scan.entry].is_dir
    /\ scan.file > Len(projects.entries[scan.entry].files)
    /\ LET sessions == SortByUpdated(LinkAgents(scan.sessions))
       IN  scan' = [scan EXCEPT
               !.entry = @ + 1,
               !.file = 1,
               !.sessions = << >>,
               !.projects = IF sessions # << >>
                            THEN Append(@, [path |-> projects.entries[scan.entry].name,
                                            sessions |-> sessions])
                            ELSE @]
    /\ UNCHANGED <<pc, scanUnchanged>>

\* scanner.py 34.
ReturnProjects ==
    /\ pc = "scanning"
    /\ projects.exists
    /\ scan.entry > Len(projects.entries)
    /\ pc' = "scanned"
    /\ UNCHANGED <<scan, scanUnchanged>>

ScanNext ==
    \/ ProjectsDirMissing
    \/ SkipPlainFile
    \/ ScanSessionFile
    \/ EndProject
    \/ ReturnProjects

ScanSpec == ScanInit /\ [][ScanNext]_vars

----------------------------------------------------------------------------
(* What a scan should return, read off the log files.                      *)

\* The project directories.
ProjectDirs == {e \in Range(projects.entries) : e.is_dir}

\* The sessions returned for a project directory.
SessionsOf(e) ==
    UNION {Range(p.sessions) : p \in {q \in Range(scan.projects) : q.path = e.name}}

\* The records of a log that count as messages and as checkpoints.
CountedRecords(f, types) ==
    {i \in DOMAIN f.lines : f.lines[i].kind = "object" /\ f.lines[i].type \in types}

\* C23: the scan returns no session for a log file without a user,
\* assistant or summary record, and for a log file with one it returns a
\* session with the number of those records as message_count and the
\* number of file-history-snapshot records as checkpoint_count.
C23_SessionsAreTheLogsWithMessages ==
    pc = "scanned" =>
        \A e \in ProjectDirs : \A f \in Range(e.files) :
            LET counted == CountedRecords(f, {"user", "assistant", "summary"})
            IN  /\ counted = {} => \A s \in SessionsOf(e) : s.id # f.stem
                /\ f.readable /\ counted # {} =>
                      \E s \in SessionsOf(e) :
                          /\ s.id = f.stem
                          /\ s.message_count = Cardinality(counted)
                          /\ s.checkpoint_count =
                                 Cardinality(CountedRecords(f, {"file-history-snapshot"}))

\* The log files that cannot be read or have a line that cannot be decoded.
Damaged(f) ==
    \/ ~f.readable
    \/ \E i \in DOMAIN f.lines : f.lines[i].kind \in {"undecodable", "nonobject"}

\* C24: a scan of a tree with a damaged log file returns, and returns a
\* session for every other readable log file that has a message, in every
\* project.
C24_DamagedLogDoesNotStopTheScan ==
    /\ pc \in {"scanning", "scanned"}
    /\ pc = "scanned" /\ (\E e \in ProjectDirs : \E f \in Range(e.files) : Damaged(f)) =>
          \A e \in ProjectDirs : \A f \in Range(e.files) :
              ~Damaged(f) /\ CountedRecords(f, {"user", "assistant", "summary"}) # {} =>
                  \E s \in SessionsOf(e) : s.id = f.stem

\* C26: an agent log with a message is returned as a session, and it is
\* in the child list of a session of its project exactly when that
\* session's id is the owner the agent log declares.
C26_AgentsLinkedToTheirOwner ==
    pc = "scanned" =>
        \A e \in ProjectDirs : \A f \in Range(e.files) :
            /\ IsAgent(f.stem)
            /\ f.readable
            /\ CountedRecords(f, {"user", "assistant", "summary"}) # {}
            => /\ \E s \in SessionsOf(e) : s.id = f.stem
               /\ \A parent \in SessionsOf(e) :
                      (\E k \in DOMAIN parent.child_agent_ids :
                           parent.child_agent_ids[k] = f.stem)
                      <=> parent.id = ParentSessionId(f.stem, f.lines)

----------------------------------------------------------------------------
(* SessionScreen._do_teleport (tui/screens/session.py 482-541) and         *)
(* HomeScreen._do_teleport (tui/screens/home.py 368-413) on top of         *)
(* restore_to_sandbox.                                                     *)

\* The parameters restore_to_sandbox (restore.py 111-115) and
\* get_shell_command (sandbox.py 267) take besides self.
RestoreToSandboxParameters == {"session", "message_uuid"}
GetShellCommandParameters == {}

\* The keywords the screens pass them (session.py 495-498 and 515-519,
\* home.py 379-383 and 394-398).
RestoreKeywords(screen) ==
    IF screen = "home" THEN {"message_uuid", "mode"} ELSE {"message_uuid"}
ShellCommandKeywords == {"term", "lines", "columns"}

\* A call with a keyword the function does not take raises TypeError.
Accepts(parameters, keywords) == keywords \subseteq parameters

TeleportInit ==
    /\ pc = "screen"
    /\ TreeInit
    /\ data = OtherLine("empty")
    /\ result = Pending
    /\ thread = << >>
    /\ history \in {h \in Histories : h.unreadable \subseteq h.files}
    /\ TeleportIdle
    /\ ListingIdle
    /\ AppIdle

teleportUnchanged ==
    <<treeVars, data, result, thread, history, runs, listingVars, paths,
      restorer, projects, scan, title, sandboxVars>>

\* session.py 489-498, home.py 372-383: the screen makes a FileRestorer and
\* calls restore_to_sandbox; the call of the home screen is rejected and
\* ends in the screen's `except Exception`.
BeginTeleport(screen) ==
    /\ pc = "screen"
    /\ LET accepted == Accepts(RestoreToSandboxParameters, RestoreKeywords(screen))
       IN  /\ pc' = IF accepted THEN "idle" ELSE "teleport_done"
           /\ tui' = [screen |-> screen, stop_called |-> FALSE,
                      error |-> IF accepted THEN "none" ELSE "TypeError"]
    /\ UNCHANGED <<sandbox, host, restore, teleport_session, teleportUnchanged>>

\* session.py 537-538, home.py 412-413: an error of restore_to_sandbox is
\* notified.
TeleportError ==
    /\ pc = "restore_raised"
    /\ pc' = "teleport_done"
    /\ tui' = [tui EXCEPT !.error = restore.error]
    /\ UNCHANGED <<sandbox, host, restore, teleport_session, teleportUnchanged>>

\* session.py 500-535, home.py 385-410: the rest of the handler once the
\* TeleportSession is there.  The session screen returns when no file was
\* restored; get_shell_command is called with its keywords, and when it
\* takes them the shell runs and, if it could be run, stop() is awaited.
FinishTeleport(run_ok) ==
    /\ pc = "ready"
    /\ pc' = "teleport_done"
    /\ LET no_files == /\ tui.screen = "session"
                       /\ teleport_session.files_restored = EmptyDict
           accepted == Accepts(GetShellCommandParameters, ShellCommandKeywords)
           stops == ~no_files /\ accepted /\ run_ok
       IN  /\ tui' = [tui EXCEPT
                  !.stop_called = stops,
                  !.error = IF no_files THEN "none"
                            ELSE IF ~accepted THEN "TypeError"
                            ELSE IF ~run_ok THEN "subprocess" ELSE "none"]
           /\ sandbox' = IF stops THEN Stopped(sandbox) ELSE sandbox
           /\ host' = IF stops THEN [host EXCEPT !.exists = FALSE, !.running = FALSE,
                                                 !.files = EmptyDict]
                      ELSE host
    /\ UNCHANGED <<restore, teleport_session, teleportUnchanged>>

TeleportNext ==
    \/ \E screen \in {"session", "home"} : BeginTeleport(screen)
    \/ StartMakesHostDir("a")
    \/ StartRaises("a")
    \/ \E server_running, start_ok \in BOOLEAN : StartCompletes(server_running, start_ok)
    \/ SkipHash
    \/ ReadFails
    \/ WriteFile
    \/ WriteRaises
    \/ ReturnSession
    \/ TeleportError
    \/ \E run_ok \in BOOLEAN : FinishTeleport(run_ok)

\* The handler is a task of the event loop and runs to its end.
TeleportSpec == TeleportInit /\ [][TeleportNext]_vars /\ WF_vars(TeleportNext)

\* C30: a teleport that got its TeleportSession, with the sandbox started,
\* eventually has the sandbox stopped and its host directory removed.
C30_TeleportEventuallyStops ==
    (pc = "ready" /\ sandbox._started) ~> (~sandbox._started /\ ~host.exists)

----------------------------------------------------------------------------
(* TeleportSandbox (sandbox.py 138-261): start, stop, write_file,          *)
(* read_file and run_command called on the sandboxes that two teleports of *)
(* one session make (session.py 474-480); the coroutines run on one event  *)
(* loop and interleave at their awaits only.                               *)

\* Calls made on the sandboxes in one behaviour.
MaxCalls == 4

\* sandbox.py 147: the characters of the session id that name the sandbox.
NameLength == 8

\* The two TeleportSandbox objects, and the id of their session.
Boxes == {"first", "second"}

TeleportedSession == <<"s", "1">>

\* _host_dir is None and working_dir is "".
NoDir == 0

\* session_id[:n]
Prefix(s, n) == SubSeq(s, 1, IF Len(s) < n THEN Len(s) ELSE n)

\* sandbox.py 140-158.
TeleportSandbox(session_id) ==
    [session_id |-> session_id,
     sandbox_name |-> <<"teleport_">> \o Prefix(session_id, NameLength),
     _host_dir |-> NoDir, working_dir |-> NoDir, files |-> {},
     _started |-> FALSE, _using_sandbox |-> FALSE]

\* No call has returned yet.
NoResult == [box |-> "", op |-> "", error |-> "none", started |-> FALSE, server |-> ""]

\* What the call op on box returned or raised; started is _started as the
\* call found it, server the answer of the microsandbox server to a start.
CallResult(box, op, error, started, server) ==
    [box |-> box, op |-> op, error |-> error, started |-> started, server |-> server]

SandboxInit ==
    /\ pc = "sandboxes"
    /\ TreeInit
    /\ data = OtherLine("empty")
    /\ result = Pending
    /\ thread = << >>
    /\ history = NoHistory
    /\ TeleportIdle
    /\ ListingIdle
    /\ paths = NoPaths
    /\ restorer = NoRestorer
    /\ projects = << >>
    /\ scan = << >>
    /\ title = << >>
    /\ tui = NoTeleport
    /\ sandboxes = [box \in Boxes |-> TeleportSandbox(TeleportedSession)]
    /\ machine = [dirs |-> << >>, running |-> {}, suspended |-> << >>,
                  calls |-> 0, last |-> NoResult]

sandboxUnchanged ==
    <<pc, treeVars, data, result, thread, teleportVars, listingVars, paths,
      restorer, projects, scan, title, tui>>

\* tempfile.mkdtemp: a directory no earlier call was given.
MakeDir(dirs, box) ==
    Append(dirs, [owner |-> box, exists |-> TRUE, files |-> {}, removed |-> FALSE])

\* sandbox.py 209-210: shutil.rmtree of the host directory when it is set
\* and exists.
RemoveTree(dirs, host_dir) ==
    IF host_dir # NoDir /\ dirs[host_dir].exists
    THEN [dirs EXCEPT ![host_dir].exists = FALSE, ![host_dir].files = {},
                      ![host_dir].removed = TRUE]
    ELSE dirs

\* The list without its i-th element.
Remove(s, i) == SubSeq(s, 1, i - 1) \o SubSeq(s, i + 1, Len(s))

\* A start that claims isolation whatever the server answered.
WithoutFallback(self, start_ok) ==
    [self EXCEPT !._using_sandbox = TRUE, !._started = TRUE]

\* sandbox.py 186-195: _using_sandbox is True when start_sandbox returned,
\* False when it raised or was not called; then _started is set.
AfterStartSandbox(self, start_ok) ==
    [self EXCEPT !._using_sandbox = start_ok, !._started = TRUE]

\* sandbox.py 167-184 and 190-195: start() up to the await of
\* client.start_sandbox, or to its end when it returns at once, when
\* mkdtemp raises or when the server's health check fails.
start(box, mkdtemp_ok, server_running) ==
    LET self == sandboxes[box]
        host_dir == Len(machine.dirs) + 1
        made == [self EXCEPT !._host_dir = host_dir, !.working_dir = host_dir]
        called == [machine EXCEPT !.calls = @ + 1]
    IN  /\ pc = "sandboxes"
        /\ machine.calls < MaxCalls
        /\ IF self._started
           THEN /\ sandboxes' = sandboxes
                /\ machine' = [called EXCEPT
                      !.last = CallResult(box, "start", "none", TRUE, "")]
           ELSE IF ~mkdtemp_ok
           THEN /\ sandboxes' = sandboxes
                /\ machine' = [called EXCEPT
                      !.last = CallResult(box, "start", "OSError", FALSE, "")]
           ELSE IF server_running
           THEN /\ sandboxes' = [sandboxes EXCEPT ![box] = made]
                /\ machine' = [called EXCEPT
                      !.dirs = MakeDir(@, box),
                      !.suspended = Append(@, [box |-> box, op |-> "start"])]
           ELSE /\ sandboxes' = [sandboxes EXCEPT
                                    ![box] = AfterStartSandbox(made, FALSE)]
                /\ machine' = [called EXCEPT
                      !.dirs = MakeDir(@, box),
                      !.last = CallResult(box, "start", "none", FALSE, "unreachable")]
        /\ UNCHANGED sandboxUnchanged

\* sandbox.py 180-195: the server answers the start request, with the
\* sandbox running under the requested name or with an error, and start()
\* goes on to its end.
ResumeStart(i, start_ok) ==
    /\ pc = "sandboxes"
    /\ i \in 1..Len(machine.suspended)
    /\ machine.suspended[i].op = "start"
    /\ LET box == machine.suspended[i].box
           self == sandboxes[box]
       IN  /\ sandboxes' = [sandboxes EXCEPT
                               ![box] = AfterStartSandbox(self, start_ok)]
           /\ machine' = [machine EXCEPT
                 !.running = IF start_ok THEN @ \cup {self.sandbox_name} ELSE @,
                 !.suspended = Remove(@, i),
                 !.last = CallResult(box, "start", "none", FALSE,
                                   IF start_ok THEN "accepted" ELSE "rejected")]
    /\ UNCHANGED sandboxUnchanged

\* sandbox.py 197-210: stop() up to the await of client.stop_sandbox, or to
\* its end when the sandbox is not started or runs in local mode.
stop(box) ==
    LET self == sandboxes[box]
        called == [machine EXCEPT !.calls = @ + 1]
    IN  /\ pc = "sandboxes"
        /\ machine.calls < MaxCalls
        /\ IF self._started /\ self._using_sandbox
           THEN /\ sandboxes' = sandboxes
                /\ machine' = [called EXCEPT
                      !.suspended = Append(@, [box |-> box, op |-> "stop"])]
           ELSE /\ sandboxes' = [sandboxes EXCEPT ![box] = Stopped(self)]
                /\ machine' = [called EXCEPT
                      !.dirs = RemoveTree(@, self._host_dir),
                      !.last = CallResult(box, "stop", "none", self._started, "")]
        /\ UNCHANGED sandboxUnchanged

\* sandbox.py 200-210: the server stops the sandbox of that name, or the
\* request raises and the error is passed over; stop() goes on to its end.
ResumeStop(i, stop_ok) ==
    /\ pc = "sandboxes"
    /\ i \in 1..Len(machine.suspended)
    /\ machine.suspended[i].op = "stop"
    /\ LET box == machine.suspended[i].box
           self == sandboxes[box]
       IN  /\ sandboxes' = [sandboxes EXCEPT ![box] = Stopped(self)]
           /\ machine' = [machine EXCEPT
                 !.running = IF stop_ok THEN @ \ {self.sandbox_name} ELSE @,
                 !.dirs = RemoveTree(@, self._host_dir),
                 !.suspended = Remove(@, i),
                 !.last = CallResult(box, "stop", "none", self._started, "")]
    /\ UNCHANGED sandboxUnchanged

\* The paths written and read, relative to the host directory (SandboxPath
\* above gives the place of a sandbox path under it).
RelativePaths == {"a.py"}

\* sandbox.py 232-246: the guard is on _host_dir; the parents of the file
\* are made when missing, the host directory among them.
write_file(box, path) ==
    LET self == sandboxes[box]
        called == [machine EXCEPT !.calls = @ + 1]
    IN  /\ pc = "sandboxes"
        /\ machine.calls < MaxCalls
        /\ IF self._host_dir = NoDir
           THEN /\ sandboxes' = sandboxes
                /\ machine' = [called EXCEPT
                      !.last = CallResult(box, "write_file", "Sandbox not started",
                                        self._started, "")]
           ELSE /\ sandboxes' = [sandboxes EXCEPT ![box].files = @ \cup {path}]
                /\ machine' = [called EXCEPT
                      !.dirs[self._host_dir].exists = TRUE,
                      !.dirs[self._host_dir].files = @ \cup {path},
                      !.last = CallResult(box, "write_file", "none", self._started, "")]
        /\ UNCHANGED sandboxUnchanged

\* sandbox.py 248-261: the guard is on _host_dir; the bytes of the file, of
\* self.files or b"" are returned.
read_file(box, path) ==
    LET self == sandboxes[box]
    IN  /\ pc = "sandboxes"
        /\ machine.calls < MaxCalls
        /\ machine' = [machine EXCEPT
              !.calls = @ + 1,
              !.last = CallResult(box, "read_file",
                                IF self._host_dir = NoDir THEN "Sandbox not started"
                                ELSE "none",
                                self._started, "")]
        /\ UNCHANGED <<sandboxes, sandboxUnchanged>>

\* sandbox.py 212-230: the guard is on _started; in a microsandbox the
\* command goes to the server, whose error is raised.
run_command(box, exec_ok) ==
    LET self == sandboxes[box]
    IN  /\ pc = "sandboxes"
        /\ machine.calls < MaxCalls
        /\ machine' = [machine EXCEPT
              !.calls = @ + 1,
              !.last = CallResult(box, "run_command",
                                IF ~self._started THEN "Sandbox not started"
                                ELSE IF self._using_sandbox /\ ~exec_ok THEN "RPC error"
                                ELSE "none",
                                self._started, "")]
        /\ UNCHANGED <<sandboxes, sandboxUnchanged>>

SandboxNext ==
    \/ \E box \in Boxes, mkdtemp_ok, server_running \in BOOLEAN :
           start(box, mkdtemp_ok, server_running)
    \/ \E i \in 1..MaxCalls, start_ok \in BOOLEAN : ResumeStart(i, start_ok)
    \/ \E box \in Boxes : stop(box)
    \/ \E i \in 1..MaxCalls, stop_ok \in BOOLEAN : ResumeStop(i, stop_ok)
    \/ \E box \in Boxes, path \in RelativePaths : write_file(box, path)
    \/ \E box \in Boxes, path \in RelativePaths : read_file(box, path)
    \/ \E box \in Boxes, exec_ok \in BOOLEAN : run_command(box, exec_ok)

SandboxSpec == SandboxInit /\ [][SandboxNext]_vars

\* The host directories on disk that were made for box.
HostDirsOf(box) ==
    {d \in 1..Len(machine.dirs) :
        machine.dirs[d].owner = box /\ machine.dirs[d].exists}

\* A call on box is suspended at its await.
Suspended(box) ==
    \E i \in 1..Len(machine.suspended) : machine.suspended[i].box = box

\* A step of stop() on box, at the call or when it resumes.
StopStep(box) ==
    \/ stop(box)
    \/ \E i \in 1..Len(machine.suspended), stop_ok \in BOOLEAN :
           machine.suspended[i].box = box /\ ResumeStop(i, stop_ok)

\* C31: two sandboxes of one session never have the same working
\* directory, and a stop of one neither removes a host directory of the
\* other nor stops the microsandbox the other runs in.
C31_RestorationsShareNothing ==
    /\ [](\A x, y \in Boxes :
             (x # y /\ sandboxes[x].working_dir # NoDir) =>
                 sandboxes[x].working_dir # sandboxes[y].working_dir)
    /\ [][\A x \in Boxes : StopStep(x) =>
             \A y \in Boxes \ {x} :
                 /\ HostDirsOf(y)' = HostDirsOf(y)
                 /\ (/\ sandboxes[y]._started
                     /\ sandboxes[y]._using_sandbox
                     /\ sandboxes[y].sandbox_name \in machine.running)
                        => sandboxes[y].sandbox_name \in machine'.running]_vars

\* C32: start() raises only when mkdtemp did; when the server is
\* unreachable or rejects the start it returns with the sandbox started in
\* local mode, its working directory set, and the sandbox is isolated
\* exactly when the server accepted the start.
C32_StartFallsBackToLocal ==
    /\ [](machine.last.op = "start" => machine.last.error \in {"none", "OSError"})
    /\ [][\A box \in Boxes :
             /\ (start(box, TRUE, FALSE) /\ ~sandboxes[box]._started) =>
                    /\ machine'.last = CallResult(box, "start", "none", FALSE, "unreachable")
                    /\ sandboxes'[box]._started
                    /\ sandboxes'[box].working_dir # NoDir
                    /\ ~sandboxes'[box]._using_sandbox
             /\ \A i \in 1..Len(machine.suspended), start_ok \in BOOLEAN :
                    (machine.suspended[i].box = box /\ ResumeStart(i, start_ok)) =>
                        /\ machine'.last.error = "none"
                        /\ sandboxes'[box]._started
                        /\ sandboxes'[box].working_dir # NoDir
                        /\ sandboxes'[box]._using_sandbox = start_ok]_vars

\* The server rejected the start and the sandbox runs in local mode.
C32_Witness ==
    /\ machine.last.op = "start"
    /\ machine.last.server = "rejected"
    /\ sandboxes[machine.last.box]._started
    /\ ~sandboxes[machine.last.box]._using_sandbox
    /\ sandboxes[machine.last.box].working_dir # NoDir

\* C36: write_file, read_file and run_command raise 'Sandbox not started'
\* exactly when the sandbox is not started, and a host directory that stop
\* removed holds no file.
C36_NotStartedRaises ==
    /\ machine.last.op \in {"write_file", "read_file", "run_command"} =>
           (machine.last.error = "Sandbox not started" <=> ~machine.last.started)
    /\ \A d \in 1..Len(machine.dirs) :
           machine.dirs[d].removed => machine.dirs[d].files = {}

\* C37: a sandbox has at most one host directory on disk, and none once
\* its last stop has returned with no call of it pending.
C37_StartStopIdempotent ==
    \A box \in Boxes :
        /\ Cardinality(HostDirsOf(box)) <= 1
        /\ (machine.last.box = box /\ machine.last.op = "stop" /\ ~Suspended(box))
               => HostDirsOf(box) = {}

====
